---------------------------- MODULE Spec2Model ----------------------------
(***************************************************************************)
(* pptrans: the page-level translation cache and the LLM round trip.       *)
(*                                                                         *)
(* Strings are sequences of one-character strings, so that strip, split,   *)
(* join, removesuffix and the id formatting are computed character by      *)
(* character as Python computes them.  Python's None is the value None.    *)
(* A run object (a python-pptx run) is a handle <<slide, position>>.       *)
(***************************************************************************)
EXTENDS Integers, Sequences, FiniteSets, TLC

VARIABLES
    pc,                            \* position in main / in a function driver
    invocation,                    \* 1 or 2: which run of the tool this is
    slides,                        \* the input document: slides -> run texts
    run_text,                      \* run.text of every run of the output copy
    translation_cache,             \* the in-memory cache map
    disk_cache,                    \* the content of translation_cache.json
    text_id_counter,               \* the shared id counter
    slide_idx,                     \* next slide of the planning loop
    global_texts_for_llm_prompt,   \* the queue of items for the model
    all_processed_run_details,     \* the run records of all slides
    pending_page_cache_updates,    \* the staging map
    llm_response_lines,            \* the reply, split into lines
    model_calls,                   \* model calls made, per invocation
    save_calls,                    \* save_cache calls, per invocation
    first_run,                     \* what invocation 1 left: texts, records
    formatted_text_for_llm,        \* the data block of the prompt, None before
    warnings,                      \* the runs the run writer warned about
    assignments,                   \* run.text assignments, per run and invocation
    start_counter,                 \* the counter before the first planner call
    last_plan,                     \* the last planner call: arguments, result
    arg,                           \* the argument of a function under test;
                                   \* in main, the cache file it started with
    res,                           \* its result
    mode,                          \* --mode
    pages,                         \* --pages, None when the option is absent
    deck,                          \* the input file: slides, shapes, runs
    output_file,                   \* the file at output_path, None if absent
    exit_code,                     \* how the process ended, None while it runs
    cache_io,                      \* what reading and writing the cache file do
    load_calls,                    \* load_cache calls, per invocation
    parse_calls,                   \* parse_page_range calls, per invocation
    prs_saves,                     \* prs.save calls, per invocation
    selected_pages_0_indexed       \* the selected pages

vars == <<pc, invocation, slides, run_text, translation_cache, disk_cache,
          text_id_counter, slide_idx, global_texts_for_llm_prompt,
          all_processed_run_details, pending_page_cache_updates,
          llm_response_lines, model_calls, save_calls, first_run,
          formatted_text_for_llm, warnings, assignments,
          start_counter, last_plan, arg, res, mode, pages, deck,
          output_file, exit_code, cache_io, load_calls, parse_calls,
          prs_saves, selected_pages_0_indexed>>

(***************************************************************************)
(* Bounds of the model.                                                    *)
(***************************************************************************)
MaxRuns == 2        \* runs on one slide
MaxSlides == 2      \* slides of a document
MaxDocRuns == 2     \* runs of a document, all slides together
MaxLines == 2       \* lines of a model reply given to the reconciler
MaxLen == 3         \* length of a string given to removesuffix
MaxPages == 3       \* slides of the deck a page range is parsed for
MaxParts == 2       \* comma-separated parts of a page range
MaxText == 4        \* length of a string given to reverse_individual_words
MaxShapes == 2      \* shapes on a slide given to the run extraction

None == <<"None">>
NoValue == <<"-">>

SeqsUpTo(S, n) == UNION {[1..k -> S] : k \in 0..n}

Range(s) == {s[i] : i \in DOMAIN s}

(***************************************************************************)
(* Python string operations.                                               *)
(***************************************************************************)
EOL_MARKER == <<"<">>

IsWhitespace(c) == c = " "

RECURSIVE lstrip(_)
lstrip(s) ==
    IF s # <<>> /\ IsWhitespace(Head(s)) THEN lstrip(Tail(s)) ELSE s

RECURSIVE rstrip(_)
rstrip(s) ==
    IF s # <<>> /\ IsWhitespace(s[Len(s)])
    THEN rstrip(SubSeq(s, 1, Len(s) - 1))
    ELSE s

\* str.strip(): leading and trailing whitespace removed
str_strip(s) == rstrip(lstrip(s))

\* the least index of character c in s, 0 when there is none
FirstIndex(s, c) ==
    IF \E i \in DOMAIN s : s[i] = c
    THEN CHOOSE i \in DOMAIN s : s[i] = c /\ \A j \in 1..(i - 1) : s[j] # c
    ELSE 0

\* str.split(":", 1): one part without a colon, else the text before the
\* first colon and everything after it
split_colon(line) ==
    LET k == FirstIndex(line, ":")
    IN  IF k = 0 THEN <<line>>
        ELSE <<SubSeq(line, 1, k - 1), SubSeq(line, k + 1, Len(line))>>

EndsWith(s, suffix) ==
    /\ Len(suffix) <= Len(s)
    /\ SubSeq(s, Len(s) - Len(suffix) + 1, Len(s)) = suffix

\* a plausible slip: every trailing marker is removed (rstrip(marker))
RECURSIVE removesuffix_all(_, _)
removesuffix_all(s, suffix) ==
    IF suffix # <<>> /\ EndsWith(s, suffix)
    THEN removesuffix_all(SubSeq(s, 1, Len(s) - Len(suffix)), suffix)
    ELSE s

\* str.removesuffix(suffix)
removesuffix(s, suffix) ==
    IF suffix # <<>> /\ EndsWith(s, suffix)
    THEN SubSeq(s, 1, Len(s) - Len(suffix))
    ELSE s

RECURSIVE str_join(_, _)
str_join(delim, texts) ==
    IF texts = <<>> THEN <<>>
    ELSE IF Len(texts) = 1 THEN texts[1]
    ELSE texts[1] \o delim \o str_join(delim, Tail(texts))

Digit(d) == <<"0", "1", "2", "3", "4", "5", "6", "7", "8", "9">>[d + 1]

\* str(n) for a natural number
RECURSIVE str_int(_)
str_int(n) ==
    IF n < 10 THEN <<Digit(n)>> ELSE str_int(n \div 10) \o <<Digit(n % 10)>>

(***************************************************************************)
(* cache.py                                                                *)
(***************************************************************************)
\* generate_page_hash: the digest of the texts joined by "|".  SHA-256 is
\* taken as injective on the joined string, which stands for its digest.
generate_page_hash(texts_on_page) == str_join(<<"|">>, texts_on_page)

\* a plausible slip: the counter is left out of the id
format_text_id_no_counter(page_number_1_indexed, counter) ==
    <<"p", "g">> \o str_int(page_number_1_indexed) \o <<"_", "t", "x", "t">>
        \o str_int(0)

\* f"pg{page_number_1_indexed}_txt{text_id_counter}"
format_text_id(page_number_1_indexed, counter) ==
    <<"p", "g">> \o str_int(page_number_1_indexed) \o <<"_", "t", "x", "t">>
        \o str_int(counter)

\* a plausible slip: the scan does not stop at the first match, the last one
\* is taken
LastCached(cached, original_text) ==
    IF \E i \in DOMAIN cached : cached[i].original_text = original_text
    THEN CHOOSE i \in DOMAIN cached :
            /\ cached[i].original_text = original_text
            /\ \A j \in (i + 1)..Len(cached) :
                  cached[j].original_text # original_text
    ELSE 0

\* cache.py 96-109: the first item of the cached list whose original_text is
\* the text (the scan breaks there), 0 if none
FirstCached(cached, original_text) ==
    IF \E i \in DOMAIN cached : cached[i].original_text = original_text
    THEN CHOOSE i \in DOMAIN cached :
            /\ cached[i].original_text = original_text
            /\ \A j \in 1..(i - 1) : cached[j].original_text # original_text
    ELSE 0

\* a variant that serves the original text of a hit instead of its translation
HitRecordKeepOriginal(run_detail, cached_item) ==
    [run_object |-> run_detail.run_object,
     final_translation |-> run_detail.original_text,
     from_cache |-> TRUE,
     original_text |-> run_detail.original_text,
     llm_id |-> None]

HitRecord(run_detail, cached_item) ==
    [run_object |-> run_detail.run_object,
     final_translation |-> cached_item.translation,
     from_cache |-> TRUE,
     original_text |-> run_detail.original_text,
     llm_id |-> None]

MissRecord(run_detail, text_id) ==
    [run_object |-> run_detail.run_object,
     final_translation |-> None,
     from_cache |-> FALSE,
     original_text |-> run_detail.original_text,
     llm_id |-> text_id]

\* a variant that sends the text without the marker
QueueItemNoMarker(run_detail, text_id, page_hash, eol_marker) ==
    [id |-> text_id,
     original_text_for_cache |-> run_detail.original_text,
     text_to_send |-> run_detail.original_text,
     run_object |-> run_detail.run_object,
     page_hash |-> page_hash]

QueueItem(run_detail, text_id, page_hash, eol_marker) ==
    [id |-> text_id,
     original_text_for_cache |-> run_detail.original_text,
     text_to_send |-> run_detail.original_text \o eol_marker,
     run_object |-> run_detail.run_object,
     page_hash |-> page_hash]

\* one run queued for the model: an id, a queue item, a miss record
QueueRun(st, run_detail, page_hash, eol_marker, page, in_hit_branch) ==
    LET text_id == format_text_id(page, st.text_id_counter)
    IN  [texts_for_llm |->
            Append(st.texts_for_llm,
                   QueueItem(run_detail, text_id, page_hash, eol_marker)),
         processed_runs_for_slide |->
            Append(st.processed_runs_for_slide,
                   MissRecord(run_detail, text_id)),
         text_id_counter |-> st.text_id_counter + 1,
         page_requires_llm_processing |->
            IF in_hit_branch THEN TRUE ELSE st.page_requires_llm_processing]

\* a plausible slip: a run whose text is not in the cached list is dropped
PlanHitRunDropMiss(st, run_detail, page_hash, cached, eol_marker, page) ==
    LET k == FirstCached(cached, run_detail.original_text)
    IN  IF k # 0
        THEN [st EXCEPT !.processed_runs_for_slide =
                            Append(@, HitRecord(run_detail, cached[k]))]
        ELSE st

\* one run of a page whose hash is a cache key (cache.py 93-136)
PlanHitRun(st, run_detail, page_hash, cached, eol_marker, page) ==
    LET k == FirstCached(cached, run_detail.original_text)
    IN  IF k # 0
        THEN [st EXCEPT !.processed_runs_for_slide =
                            Append(@, HitRecord(run_detail, cached[k]))]
        ELSE QueueRun(st, run_detail, page_hash, eol_marker, page, TRUE)

RECURSIVE PlanHitRuns(_, _, _, _, _, _)
PlanHitRuns(st, runs, page_hash, cached, eol_marker, page) ==
    IF runs = <<>> THEN st
    ELSE PlanHitRuns(
            PlanHitRun(st, Head(runs), page_hash, cached, eol_marker, page),
            Tail(runs), page_hash, cached, eol_marker, page)

RECURSIVE PlanMissRuns(_, _, _, _, _)
PlanMissRuns(st, runs, page_hash, eol_marker, page) ==
    IF runs = <<>> THEN st
    ELSE PlanMissRuns(
            QueueRun(st, Head(runs), page_hash, eol_marker, page, FALSE),
            Tail(runs), page_hash, eol_marker, page)

\* a variant that never looks into the cache
prepare_slide_ignoring_cache(slide_run_info, page_hash, cache, counter, eol_marker, page_number_1_indexed) ==
    PlanMissRuns([texts_for_llm |-> <<>>,
                  processed_runs_for_slide |-> <<>>,
                  text_id_counter |-> counter,
                  page_requires_llm_processing |-> slide_run_info # <<>>],
                 slide_run_info, page_hash, eol_marker, page_number_1_indexed)

\* prepare_slide_for_translation
prepare_slide_for_translation(slide_run_info, page_hash, cache, counter, eol_marker, page_number_1_indexed) ==
    LET st0 == [texts_for_llm |-> <<>>,
                processed_runs_for_slide |-> <<>>,
                text_id_counter |-> counter,
                page_requires_llm_processing |-> FALSE]
    IN  IF page_hash \in DOMAIN cache
        THEN PlanHitRuns(st0, slide_run_info, page_hash, cache[page_hash],
                         eol_marker, page_number_1_indexed)
        ELSE PlanMissRuns(
                [st0 EXCEPT !.page_requires_llm_processing =
                                (slide_run_info # <<>>)],
                slide_run_info, page_hash, eol_marker, page_number_1_indexed)

\* the first index of seq whose element satisfies Test, 0 if none
FirstWhere(seq, Test(_)) ==
    IF \E i \in DOMAIN seq : Test(seq[i])
    THEN CHOOSE i \in DOMAIN seq :
            Test(seq[i]) /\ \A j \in 1..(i - 1) : ~Test(seq[j])
    ELSE 0

EmptyMap == [h \in {} |-> <<>>]

\* d[key] = value
MapSet(d, key, value) == (key :> value) @@ d

\* a plausible slip: the pair is always appended
PendingUpsertAppend(pending_list, original_text_for_cache, final_llm_translation) ==
    Append(pending_list, [original_text |-> original_text_for_cache,
                          translation |-> final_llm_translation])

\* cache.py 243-260: update the pair of this original text, else append one
PendingUpsert(pending_list, original_text_for_cache, final_llm_translation) ==
    LET IsIt(p) == p.original_text = original_text_for_cache
        k == FirstWhere(pending_list, IsIt)
    IN  IF k # 0
        THEN [pending_list EXCEPT ![k].translation = final_llm_translation]
        ELSE Append(pending_list,
                    [original_text |-> original_text_for_cache,
                     translation |-> final_llm_translation])

\* cache.py 224-228: the first record with this llm_id gets the translation
SetFinalTranslation(details, parsed_text_id, final_llm_translation) ==
    LET IsIt(d) == d.llm_id = parsed_text_id
        k == FirstWhere(details, IsIt)
    IN  IF k # 0
        THEN [details EXCEPT ![k].final_translation = final_llm_translation]
        ELSE details

\* cache.py 193: line = orig_line.strip()
ReadLine(orig_line) == str_strip(orig_line)

\* a plausible slip: a line with an unknown id is taken for the first item
FindPromptItemOrFirst(queue, parsed_text_id) ==
    LET IsIt(item) == item.id = parsed_text_id
        k == FirstWhere(queue, IsIt)
    IN  IF k = 0 /\ queue # <<>> THEN 1 ELSE k

\* cache.py 204-211: next(item for item in queue if item["id"] == id, None)
FindPromptItem(queue, parsed_text_id) ==
    LET IsIt(item) == item.id = parsed_text_id
    IN  FirstWhere(queue, IsIt)

\* the body of the for loop of update_data_from_llm_response (192-276);
\* st is [details, pending]
ProcessLine(st, orig_line, queue, eol_marker) ==
    LET line == ReadLine(orig_line)
        parts == split_colon(line)
    IN  IF line = <<>> THEN st
        ELSE IF Len(parts) # 2 THEN st
        ELSE
          LET parsed_text_id == str_strip(parts[1])
              llm_translation_with_eol == parts[2]
              k == FindPromptItem(queue, parsed_text_id)
          IN  IF k = 0 THEN st
              ELSE
                LET original_text_for_cache == queue[k].original_text_for_cache
                    current_page_hash == queue[k].page_hash
                    final_llm_translation ==
                        removesuffix(llm_translation_with_eol, eol_marker)
                    pending1 ==
                        IF current_page_hash \notin DOMAIN st.pending
                        THEN MapSet(st.pending, current_page_hash, <<>>)
                        ELSE st.pending
                IN  [details |->
                        SetFinalTranslation(st.details, parsed_text_id,
                                            final_llm_translation),
                     pending |->
                        MapSet(pending1, current_page_hash,
                               PendingUpsert(pending1[current_page_hash],
                                             original_text_for_cache,
                                             final_llm_translation))]

RECURSIVE ProcessLines(_, _, _, _)
ProcessLines(st, lines, queue, eol_marker) ==
    IF lines = <<>> THEN st
    ELSE ProcessLines(ProcessLine(st, Head(lines), queue, eol_marker),
                      Tail(lines), queue, eol_marker)

\* update_data_from_llm_response: the run records and the pending map after
\* the reply has been processed
update_data_from_llm_response(lines, queue, details, pending, eol_marker) ==
    ProcessLines([details |-> details, pending |-> pending], lines, queue,
                 eol_marker)

\* a plausible slip: an empty pending list is stored for a new page too
CommitOneAlwaysStore(cache, page_hash, translations_list) ==
    MapSet(cache, page_hash, translations_list)

\* cache.py 297-312: one item of pending_page_cache_updates.items()
CommitOne(cache, page_hash, translations_list) ==
    IF translations_list # <<>>
    THEN MapSet(cache, page_hash, translations_list)
    ELSE IF page_hash \in DOMAIN cache
         THEN MapSet(cache, page_hash, <<>>)
         ELSE cache

RECURSIVE CommitKeys(_, _, _)
CommitKeys(cache, pending, keys) ==
    IF keys = {} THEN cache
    ELSE LET h == CHOOSE x \in keys : TRUE
         IN  CommitKeys(CommitOne(cache, h, pending[h]), pending, keys \ {h})

\* commit_pending_cache_updates: the cache map that is handed to save_cache
commit_pending_cache_updates(cache, pending) ==
    CommitKeys(cache, pending, DOMAIN pending)

(***************************************************************************)
(* The texts of the models: the run texts and the reply texts of the       *)
(* "Hei maailma" scenario, and a few more reply texts.                     *)
(***************************************************************************)
Hei == <<"H", "e", "i", " ">>
maailma == <<"m", "a", "a", "i", "l", "m", "a">>
Hello == <<"H", "e", "l", "l", "o", " ">>
world == <<"w", "o", "r", "l", "d">>

RunTexts == {Hei, maailma}

Pair(o, t) == [original_text |-> o, translation |-> t]

\* the lists a cache file may hold under a key
CacheLists ==
    {<<>>,
     <<Pair(Hei, Hello)>>,
     <<Pair(maailma, world)>>,
     <<Pair(Hei, Hello), Pair(maailma, world)>>,
     <<Pair(maailma, world), Pair(Hei, Hello)>>,
     <<Pair(Hei, Hello), Pair(Hei, world)>>}

\* a variant that hands out one run object for all the runs of a slide
RunInfoOneHandle(texts, slide) ==
    [i \in DOMAIN texts |->
        [original_text |-> texts[i], run_object |-> <<slide, 1>>]]

\* the run info of a slide: its texts with their run objects
RunInfo(texts, slide) ==
    [i \in DOMAIN texts |->
        [original_text |-> texts[i], run_object |-> <<slide, i>>]]

Texts(run_info) == [i \in DOMAIN run_info |-> run_info[i].original_text]

NoPlan == [called |-> FALSE]

\* the command line, the files and the process state of main (51-118)
cliVars == <<mode, pages, deck, output_file, exit_code, cache_io,
             load_calls, parse_calls, prs_saves, selected_pages_0_indexed>>

\* the values they have where the command line plays no part: translate
\* mode, no --pages, a cache file that reads and writes
CliIdle ==
    /\ mode = "translate"
    /\ pages = None
    /\ deck = <<>>
    /\ output_file = None
    /\ exit_code = None
    /\ cache_io = [read |-> "ok", writable |-> TRUE]
    /\ load_calls = 0
    /\ parse_calls = 0
    /\ prs_saves = 0
    /\ selected_pages_0_indexed = {}

\* the variables of main that a function driver leaves alone
mainVars == <<invocation, slides, run_text, model_calls, first_run,
              formatted_text_for_llm, warnings, assignments, cliVars>>

MainIdle ==
    /\ invocation = 0
    /\ slides = <<>>
    /\ run_text = <<>>
    /\ model_calls = 0
    /\ first_run = NoValue
    /\ formatted_text_for_llm = None
    /\ warnings = <<>>
    /\ assignments = EmptyMap
    /\ CliIdle

(***************************************************************************)
(* SpecStrip: removesuffix(eol_marker) applied to a string and to the same *)
(* string with the marker appended.                                        *)
(***************************************************************************)
StripAlphabet == {"x", " ", "<", ":"}

StripInit ==
    /\ pc = "strip"
    /\ arg \in SeqsUpTo(StripAlphabet, MaxLen)
    /\ res = NoValue
    /\ MainIdle
    /\ translation_cache = EmptyMap
    /\ disk_cache = EmptyMap
    /\ text_id_counter = 0
    /\ slide_idx = 0
    /\ global_texts_for_llm_prompt = <<>>
    /\ all_processed_run_details = <<>>
    /\ pending_page_cache_updates = EmptyMap
    /\ llm_response_lines = <<>>
    /\ save_calls = 0
    /\ start_counter = 0
    /\ last_plan = NoPlan

StripStep ==
    /\ pc = "strip"
    /\ pc' = "stripped"
    /\ res' = [plain |-> removesuffix(arg, EOL_MARKER),
               marked |-> removesuffix(arg \o EOL_MARKER, EOL_MARKER)]
    /\ UNCHANGED <<arg, mainVars, translation_cache, disk_cache,
                   text_id_counter, slide_idx, global_texts_for_llm_prompt,
                   all_processed_run_details, pending_page_cache_updates,
                   llm_response_lines, save_calls, start_counter, last_plan>>

StripNext == StripStep

SpecStrip == StripInit /\ [][StripNext]_vars

\* C8: removing the EOL sentinel removes exactly one trailing occurrence and
\* nothing when the text does not end with it; so strip(s + SENTINEL) = s for
\* every s without the sentinel, and strip(s) = s for every s that does not
\* end with it.
C8_StripOneSentinel ==
    pc = "stripped" =>
        /\ EndsWith(arg, EOL_MARKER) => res.plain \o EOL_MARKER = arg
        /\ ~EndsWith(arg, EOL_MARKER) => res.plain = arg
        /\ "<" \notin Range(arg) => res.marked = arg

C8_Witness ==
    /\ pc = "stripped"
    /\ arg = <<"x", "<", "<">>
    /\ res.plain = <<"x", "<">>


(***************************************************************************)
(* SpecCommit: commit_pending_cache_updates applied to a cache map and a   *)
(* pending map.                                                            *)
(***************************************************************************)
CommitHashes ==
    {generate_page_hash(<<Hei>>), generate_page_hash(<<Hei, maailma>>)}

CommitLists ==
    {<<>>, <<Pair(Hei, Hello)>>, <<Pair(Hei, world), Pair(maailma, world)>>}

\* the maps from some of the hashes to lists
MapsOver(hashes, lists) ==
    UNION {[keys -> lists] : keys \in SUBSET hashes}

\* save_cache: the file is written (cache.py 35-40)
save_cache(cache_data) ==
    /\ disk_cache' = cache_data
    /\ save_calls' = save_calls + 1

\* commit_pending_cache_updates with its trailing save_cache
DoCommit ==
    /\ translation_cache' =
           commit_pending_cache_updates(translation_cache,
                                        pending_page_cache_updates)
    /\ save_cache(translation_cache')

CommitInit ==
    /\ pc = "commit"
    /\ translation_cache \in MapsOver(CommitHashes, CommitLists)
    /\ pending_page_cache_updates \in MapsOver(CommitHashes, CommitLists)
    /\ arg = translation_cache
    /\ disk_cache = translation_cache
    /\ res = NoValue
    /\ MainIdle
    /\ text_id_counter = 0
    /\ slide_idx = 0
    /\ global_texts_for_llm_prompt = <<>>
    /\ all_processed_run_details = <<>>
    /\ llm_response_lines = <<>>
    /\ save_calls = 0
    /\ start_counter = 0
    /\ last_plan = NoPlan

CommitStep ==
    /\ pc = "commit"
    /\ pc' = "committed"
    /\ DoCommit
    /\ UNCHANGED <<arg, res, mainVars, text_id_counter, slide_idx,
                   global_texts_for_llm_prompt, all_processed_run_details,
                   pending_page_cache_updates, llm_response_lines,
                   start_counter, last_plan>>

CommitNext == CommitStep

SpecCommit == CommitInit /\ [][CommitNext]_vars

\* C5: commit_pending_cache_updates: a non-empty pending list replaces the
\* cache entry of its fingerprint; an empty one clears the entry of a
\* fingerprint that is a cache key and adds no key otherwise; a key that is
\* not in the pending map keeps its value; the map is then saved once.
C5_CommitMerge ==
    pc = "committed" =>
        LET old == arg
            new == translation_cache
            pend == pending_page_cache_updates
        IN  /\ \A h \in DOMAIN pend :
                  /\ pend[h] # <<>> => h \in DOMAIN new /\ new[h] = pend[h]
                  /\ pend[h] = <<>> /\ h \in DOMAIN old =>
                        h \in DOMAIN new /\ new[h] = <<>>
                  /\ pend[h] = <<>> /\ h \notin DOMAIN old =>
                        h \notin DOMAIN new
            /\ \A h \in DOMAIN old \ DOMAIN pend :
                  h \in DOMAIN new /\ new[h] = old[h]
            /\ DOMAIN new \subseteq DOMAIN old \cup DOMAIN pend
            /\ save_calls = 1
            /\ disk_cache = new

C5_Witness ==
    /\ pc = "committed"
    /\ \E h1, h2 \in DOMAIN pending_page_cache_updates :
          /\ pending_page_cache_updates[h1] = <<>>
          /\ h1 \in DOMAIN arg
          /\ arg[h1] # <<>>
          /\ translation_cache[h1] = <<>>
          /\ pending_page_cache_updates[h2] # <<>>
          /\ h2 \in DOMAIN arg
          /\ arg[h2] # pending_page_cache_updates[h2]


(***************************************************************************)
(* SpecPlanner: prepare_slide_for_translation applied to two slides in a   *)
(* row, the second call receiving the counter the first one returned, as   *)
(* the loop of main threads it.  Any run list, page number and cache.      *)
(***************************************************************************)
PageNumbers == {1, 12}
StartCounters == {0, 9}

PlannerCaches ==
    {EmptyMap} \cup
    {generate_page_hash(texts) :> list :
        texts \in SeqsUpTo(RunTexts, MaxRuns), list \in CacheLists}

\* one pass of the slide loop of main on a slide that has text: the slide is
\* hashed and planned and what the planner returns is accumulated; ps is
\* [text_id_counter, queue, details, pending]
plan_page(ps, cache, slide_run_info, page_number_1_indexed) ==
    LET page_hash == generate_page_hash(Texts(slide_run_info))
        out == prepare_slide_for_translation(
                   slide_run_info, page_hash, cache, ps.text_id_counter,
                   EOL_MARKER, page_number_1_indexed)
    IN  [text_id_counter |-> out.text_id_counter,
         queue |-> ps.queue \o out.texts_for_llm,
         details |-> ps.details \o out.processed_runs_for_slide,
         pending |->
            IF out.page_requires_llm_processing
               /\ page_hash \notin DOMAIN ps.pending
            THEN MapSet(ps.pending, page_hash, <<>>)
            ELSE ps.pending,
         page_hash |-> page_hash,
         out |-> out]

\* the planning state held in the variables of main
PlanVars ==
    [text_id_counter |-> text_id_counter,
     queue |-> global_texts_for_llm_prompt,
     details |-> all_processed_run_details,
     pending |-> pending_page_cache_updates]

PlanPage(slide_run_info, page_number_1_indexed) ==
    LET ps == plan_page(PlanVars, translation_cache, slide_run_info,
                        page_number_1_indexed)
    IN  /\ text_id_counter' = ps.text_id_counter
        /\ global_texts_for_llm_prompt' = ps.queue
        /\ all_processed_run_details' = ps.details
        /\ pending_page_cache_updates' = ps.pending
        /\ last_plan' = [called |-> TRUE,
                         slide_run_info |-> slide_run_info,
                         page_hash |-> ps.page_hash,
                         cache |-> translation_cache,
                         counter |-> text_id_counter,
                         page |-> page_number_1_indexed,
                         out |-> ps.out]

PlannerInit ==
    /\ pc = "plan1"
    /\ translation_cache \in PlannerCaches
    /\ text_id_counter \in StartCounters
    /\ start_counter = text_id_counter
    /\ slide_idx = 0
    /\ global_texts_for_llm_prompt = <<>>
    /\ all_processed_run_details = <<>>
    /\ pending_page_cache_updates = EmptyMap
    /\ last_plan = NoPlan
    /\ MainIdle
    /\ disk_cache = translation_cache
    /\ llm_response_lines = <<>>
    /\ save_calls = 0
    /\ arg = NoValue
    /\ res = NoValue

PlannerCall ==
    /\ pc \in {"plan1", "plan2"}
    /\ pc' = IF pc = "plan1" THEN "plan2" ELSE "planned"
    /\ slide_idx' = slide_idx + 1
    /\ \E texts \in SeqsUpTo(RunTexts, MaxRuns), page \in PageNumbers :
          PlanPage(RunInfo(texts, slide_idx + 1), page)
    /\ UNCHANGED <<mainVars, translation_cache, disk_cache,
                   llm_response_lines, save_calls, start_counter, arg, res>>

PlannerNext == PlannerCall

SpecPlanner == PlannerInit /\ [][PlannerNext]_vars

InCachedList(cache, page_hash, original_text) ==
    \E k \in DOMAIN cache[page_hash] :
        cache[page_hash][k].original_text = original_text

\* C1: when the page fingerprint is a cache key, a run whose text equals no
\* original_text of the entry is queued (an id and a queue item), a run
\* whose text is in the entry is served from cache, and no input run is
\* missing from the returned record list.
C1_PartialHitSafety ==
    last_plan.called =>
        LET runs == last_plan.slide_run_info
            h == last_plan.page_hash
            cache == last_plan.cache
            recs == last_plan.out.processed_runs_for_slide
            q == last_plan.out.texts_for_llm
        IN  /\ \A i \in DOMAIN runs :
                  \E k \in DOMAIN recs :
                      recs[k].run_object = runs[i].run_object
            /\ h \in DOMAIN cache =>
                  \A i \in DOMAIN runs :
                      \E k \in DOMAIN recs :
                          /\ recs[k].run_object = runs[i].run_object
                          /\ IF InCachedList(cache, h, runs[i].original_text)
                             THEN /\ recs[k].from_cache
                                  /\ \A m \in DOMAIN q :
                                        q[m].run_object # runs[i].run_object
                             ELSE /\ ~recs[k].from_cache
                                  /\ recs[k].llm_id # None
                                  /\ \E m \in DOMAIN q :
                                        /\ q[m].run_object = runs[i].run_object
                                        /\ q[m].id = recs[k].llm_id

C1_Witness ==
    /\ last_plan.called
    /\ last_plan.page_hash \in DOMAIN last_plan.cache
    /\ \E i, j \in DOMAIN last_plan.slide_run_info :
          /\ InCachedList(last_plan.cache, last_plan.page_hash,
                          last_plan.slide_run_info[i].original_text)
          /\ ~InCachedList(last_plan.cache, last_plan.page_hash,
                           last_plan.slide_run_info[j].original_text)
          /\ last_plan.out.processed_runs_for_slide[i].from_cache
          /\ ~last_plan.out.processed_runs_for_slide[j].from_cache

\* C6: the planner returns one record per input run in input order; a record
\* is a cache hit (the translation of the first cached item with the run's
\* text, no id) or a miss (no translation, an id carried by exactly one
\* returned queue item, whose text_to_send is the run text and the sentinel);
\* without a cache entry every run is a miss; the returned counter is the
\* input counter plus the number of queued items; the needs-LLM flag says
\* that an item was queued; the cache map is not modified.
C6_PlannerPartition ==
    last_plan.called =>
        LET runs == last_plan.slide_run_info
            h == last_plan.page_hash
            cache == last_plan.cache
            out == last_plan.out
            recs == out.processed_runs_for_slide
            q == out.texts_for_llm
            IsHit(i) ==
                /\ recs[i].from_cache
                /\ recs[i].llm_id = None
                /\ h \in DOMAIN cache
                /\ \E k \in DOMAIN cache[h] :
                      /\ cache[h][k].original_text = runs[i].original_text
                      /\ \A j \in 1..(k - 1) :
                            cache[h][j].original_text # runs[i].original_text
                      /\ recs[i].final_translation = cache[h][k].translation
            IsMiss(i) ==
                /\ ~recs[i].from_cache
                /\ recs[i].final_translation = None
                /\ recs[i].llm_id # None
                /\ Cardinality({k \in DOMAIN q : q[k].id = recs[i].llm_id}) = 1
                /\ \A k \in DOMAIN q :
                      q[k].id = recs[i].llm_id =>
                          /\ q[k].text_to_send =
                                 runs[i].original_text \o EOL_MARKER
                          /\ q[k].run_object = runs[i].run_object
        IN  /\ Len(recs) = Len(runs)
            /\ \A i \in DOMAIN runs :
                  /\ recs[i].run_object = runs[i].run_object
                  /\ recs[i].original_text = runs[i].original_text
                  /\ IsHit(i) \/ IsMiss(i)
            /\ h \notin DOMAIN cache => \A i \in DOMAIN runs : IsMiss(i)
            /\ out.text_id_counter = last_plan.counter + Len(q)
            /\ out.page_requires_llm_processing = (Len(q) > 0)
            /\ translation_cache = cache

C6_Witness ==
    /\ last_plan.called
    /\ last_plan.page_hash \in DOMAIN last_plan.cache
    /\ last_plan.cache[last_plan.page_hash] =
           <<Pair(Hei, Hello), Pair(Hei, world)>>
    /\ Texts(last_plan.slide_run_info) = <<Hei, maailma>>
    /\ last_plan.out.processed_runs_for_slide[1].final_translation = Hello
    /\ last_plan.out.processed_runs_for_slide[2].llm_id # None
    /\ last_plan.out.text_id_counter = last_plan.counter + 1

\* the id text pg<page>_txt<counter>
IdText(page, counter) ==
    <<"p", "g">> \o str_int(page) \o <<"_", "t", "x", "t">> \o str_int(counter)

\* C7: over successive planner calls that thread the counter, the i-th queued
\* item has the id pg<page>_txt<c> with c the starting counter plus i - 1
\* (never reset per page, strictly increasing in queue order), so the ids of
\* the queue are pairwise distinct, also for two slides with the same page
\* number or the same content.
C7_IdsUnique ==
    LET q == global_texts_for_llm_prompt
    IN  /\ \A i \in DOMAIN q :
              \E page \in PageNumbers :
                  q[i].id = IdText(page, start_counter + i - 1)
        /\ \A i, j \in DOMAIN q : i # j => q[i].id # q[j].id
        /\ text_id_counter = start_counter + Len(q)

C7_Witness ==
    /\ pc = "planned"
    /\ Len(global_texts_for_llm_prompt) = 4
    /\ global_texts_for_llm_prompt[1].id = IdText(12, 9)
    /\ global_texts_for_llm_prompt[3].id = IdText(12, 11)
    /\ global_texts_for_llm_prompt[1].original_text_for_cache =
           global_texts_for_llm_prompt[3].original_text_for_cache
    /\ global_texts_for_llm_prompt[1].page_hash =
           global_texts_for_llm_prompt[3].page_hash


(***************************************************************************)
(* SpecReconciler: update_data_from_llm_response applied to a reply, and   *)
(* then to the same reply again, after main has planned a document.        *)
(***************************************************************************)
NoPlanState ==
    [text_id_counter |-> 0, queue |-> <<>>, details |-> <<>>,
     pending |-> EmptyMap]

\* the slide loop of main (154-283) from slide k on; a slide without text
\* is passed over
RECURSIVE plan_slides(_, _, _, _)
plan_slides(ps, cache, doc, k) ==
    IF k > Len(doc) THEN ps
    ELSE plan_slides(
            IF doc[k] = <<>> THEN ps
            ELSE LET n == plan_page(ps, cache, RunInfo(doc[k], k), k)
                 IN  [text_id_counter |-> n.text_id_counter,
                      queue |-> n.queue,
                      details |-> n.details,
                      pending |-> n.pending],
            cache, doc, k + 1)

\* documents and caches that give the reconciler one or two queued items
ReconcilerCases ==
    {<< <<<<Hei, maailma>>>>, EmptyMap >>,
     << <<<<Hei, Hei>>>>, EmptyMap >>,
     << <<<<Hei>>, <<Hei>>>>, EmptyMap >>,
     << <<<<Hei>>, <<maailma>>>>, EmptyMap >>,
     << <<<<Hei, maailma>>>>,
        generate_page_hash(<<Hei, maailma>>) :> <<Pair(Hei, Hello)>> >>}

\* texts a model may put after the colon
ReplyTexts ==
    {<<" ">> \o Hello,
     world \o <<"<">>,
     world \o <<"<", " ">>,
     <<>>,
     <<"a", ":", "b", "<", "<">>}

UnknownId == <<"p", "g", "9", "_", "t", "x", "t", "9">>

\* the lines a model may return for a queue
ReplyLines(queue) ==
    {item.id \o <<":">> \o t : item \in Range(queue), t \in ReplyTexts}
    \cup {<<" ">> \o item.id \o <<" ", ":">> \o world : item \in Range(queue)}
    \cup {UnknownId \o <<":">> \o world, world, <<>>, <<" ", " ">>}

ReconcilerInit ==
    /\ pc = "reconcile"
    /\ \E c \in ReconcilerCases :
          LET ps == plan_slides(NoPlanState, c[2], c[1], 1)
          IN  /\ slides = c[1]
              /\ translation_cache = c[2]
              /\ text_id_counter = ps.text_id_counter
              /\ global_texts_for_llm_prompt = ps.queue
              /\ all_processed_run_details = ps.details
              /\ pending_page_cache_updates = ps.pending
    /\ disk_cache = translation_cache
    /\ slide_idx = Len(slides) + 1
    /\ llm_response_lines = <<>>
    /\ invocation = 0
    /\ run_text = <<>>
    /\ model_calls = 0
    /\ first_run = NoValue
    /\ formatted_text_for_llm = None
    /\ warnings = <<>>
    /\ assignments = EmptyMap
    /\ save_calls = 0
    /\ start_counter = 0
    /\ last_plan = NoPlan
    /\ arg = NoValue
    /\ res = NoValue
    /\ CliIdle

\* update_data_from_llm_response on the variables of main
Reconcile(lines) ==
    LET r == update_data_from_llm_response(
                 lines, global_texts_for_llm_prompt,
                 all_processed_run_details, pending_page_cache_updates,
                 EOL_MARKER)
    IN  /\ all_processed_run_details' = r.details
        /\ pending_page_cache_updates' = r.pending

ReconcilerStep ==
    /\ pc = "reconcile"
    /\ pc' = "reconciled"
    /\ \E lines \in SeqsUpTo(ReplyLines(global_texts_for_llm_prompt), MaxLines) :
          /\ llm_response_lines' = lines
          /\ Reconcile(lines)
    /\ arg' = [details |-> all_processed_run_details,
               pending |-> pending_page_cache_updates]
    /\ res' = [details |-> all_processed_run_details',
               pending |-> pending_page_cache_updates']
    /\ UNCHANGED cliVars
    /\ UNCHANGED <<invocation, slides, run_text, translation_cache,
                   disk_cache, text_id_counter, slide_idx,
                   global_texts_for_llm_prompt, model_calls, save_calls,
                   first_run,
                   formatted_text_for_llm, warnings, assignments, start_counter, last_plan>>

ReconcilerAgain ==
    /\ pc = "reconciled"
    /\ pc' = "reconciled_twice"
    /\ Reconcile(llm_response_lines)
    /\ UNCHANGED cliVars
    /\ UNCHANGED <<invocation, slides, run_text, translation_cache,
                   disk_cache, text_id_counter, slide_idx,
                   global_texts_for_llm_prompt, llm_response_lines,
                   model_calls, save_calls, first_run,
                   formatted_text_for_llm, warnings, assignments, start_counter,
                   last_plan, arg, res>>

ReconcilerNext == ReconcilerStep \/ ReconcilerAgain

SpecReconciler == ReconcilerInit /\ [][ReconcilerNext]_vars

\* what a raw reply line is, read as the claims read it
HasColon(line) == FirstIndex(line, ":") # 0

\* the id a line names: the text before its first colon, without the
\* whitespace around it
LineId(line) == str_strip(SubSeq(line, 1, FirstIndex(line, ":") - 1))

\* the text after the first colon, with its whitespace as the model sent it
RawRest(line) == SubSeq(line, FirstIndex(line, ":") + 1, Len(line))

QueueIds == {item.id : item \in Range(global_texts_for_llm_prompt)}

\* a line that answers a queued item
Answers(line) == HasColon(line) /\ LineId(line) \in QueueIds

\* the queued item a line answers
ItemOf(line) ==
    CHOOSE item \in Range(global_texts_for_llm_prompt) : item.id = LineId(line)

\* the last line of the reply that answers an item picked by Test
IsLastFor(n, Test(_)) ==
    /\ Answers(llm_response_lines[n])
    /\ Test(ItemOf(llm_response_lines[n]))
    /\ \A m \in (n + 1)..Len(llm_response_lines) :
          ~(Answers(llm_response_lines[m])
            /\ Test(ItemOf(llm_response_lines[m])))

\* C4 as claimed: the record of a queued run that a reply line answers holds
\* the text after the first colon of that line with all its leading and
\* trailing whitespace, less one trailing sentinel, whether or not the line
\* ends with the sentinel.
C4_RestRetained ==
    pc = "reconciled" =>
        \A d \in Range(all_processed_run_details) :
            \A n \in DOMAIN llm_response_lines :
                LET SameId(item) == item.id = d.llm_id
                IN  IsLastFor(n, SameId) =>
                        d.final_translation =
                            removesuffix(RawRest(llm_response_lines[n]),
                                         EOL_MARKER)

\* C9: after any reply each pending list holds at most one pair per
\* original_text, the pair of a text holding the translation of the last
\* line for that text on that page (a later line replaces, it does not
\* append), and processing the same reply again leaves the run records and
\* the pending map as they were after the first time.
C9_PendingReplace ==
    /\ pc \in {"reconciled", "reconciled_twice"} =>
          \A h \in DOMAIN pending_page_cache_updates :
              LET list == pending_page_cache_updates[h]
              IN  /\ \A i, j \in DOMAIN list :
                        i # j => list[i].original_text # list[j].original_text
                  /\ \A i \in DOMAIN list :
                        \E n \in DOMAIN llm_response_lines :
                            LET SameText(item) ==
                                    /\ item.page_hash = h
                                    /\ item.original_text_for_cache =
                                           list[i].original_text
                            IN  /\ IsLastFor(n, SameText)
                                /\ list[i].translation =
                                       removesuffix(
                                           RawRest(str_strip(
                                               llm_response_lines[n])),
                                           EOL_MARKER)
    /\ pc = "reconciled_twice" =>
          /\ all_processed_run_details = res.details
          /\ pending_page_cache_updates = res.pending

C9_Witness ==
    /\ pc = "reconciled_twice"
    /\ Len(llm_response_lines) = 2
    /\ Answers(llm_response_lines[1])
    /\ Answers(llm_response_lines[2])
    /\ ItemOf(llm_response_lines[1]).id # ItemOf(llm_response_lines[2]).id
    /\ ItemOf(llm_response_lines[1]).original_text_for_cache =
           ItemOf(llm_response_lines[2]).original_text_for_cache
    /\ ItemOf(llm_response_lines[1]).page_hash =
           ItemOf(llm_response_lines[2]).page_hash
    /\ RawRest(llm_response_lines[1]) # RawRest(llm_response_lines[2])
    /\ Len(pending_page_cache_updates[
               ItemOf(llm_response_lines[1]).page_hash]) = 1

\* the reply without its blank lines, its lines without a colon and its
\* lines whose id matches no queued item
AnsweringLines(lines) ==
    LET Keep(line) == Answers(line) IN SelectSeq(lines, Keep)

\* C10: a line without a colon or with an id that matches no queued item
\* changes neither a run record nor the pending map and does not stop the
\* batch: the records and the pending map after a reply are those obtained
\* from the reply without such lines and without its blank lines.
C10_LineRecovery ==
    pc = "reconciled" =>
        LET kept == AnsweringLines(llm_response_lines)
            r == update_data_from_llm_response(
                     kept, global_texts_for_llm_prompt, arg.details,
                     arg.pending, EOL_MARKER)
        IN  /\ all_processed_run_details = r.details
            /\ pending_page_cache_updates = r.pending
            /\ kept = <<>> =>
                  /\ all_processed_run_details = arg.details
                  /\ pending_page_cache_updates = arg.pending

C10_Witness ==
    /\ pc = "reconciled"
    /\ Len(llm_response_lines) = 2
    /\ llm_response_lines[1] = UnknownId \o <<":">> \o world
    /\ Answers(llm_response_lines[2])
    /\ all_processed_run_details # arg.details
    /\ \E h \in DOMAIN pending_page_cache_updates :
          Len(pending_page_cache_updates[h]) = 1

(***************************************************************************)
(* Spec: main in translate mode without --pages, run twice in a row on the *)
(* same input file; the second run starts from the cache file the first    *)
(* one left.  The planner, the reconciler and the commit are those of      *)
(* cache.py; the page number of a slide is its 1-indexed position.         *)
(***************************************************************************)
RECURSIVE RunCount(_)
RunCount(doc) == IF doc = <<>> THEN 0 ELSE Len(Head(doc)) + RunCount(Tail(doc))

Documents ==
    {doc \in SeqsUpTo(SeqsUpTo(RunTexts, MaxDocRuns), MaxSlides) :
        RunCount(doc) <= MaxDocRuns}

\* the cache files main may find: none or an empty one, or one with an
\* entry under the fingerprint of the first slide
CacheFiles(doc) ==
    {EmptyMap} \cup
    IF doc # <<>> /\ doc[1] # <<>>
    THEN {generate_page_hash(doc[1]) :> list :
            list \in {<<>>, <<Pair(Hei, Hello)>>,
                      <<Pair(Hei, Hello), Pair(maailma, world)>>}}
    ELSE {}

\* main 159-187: the runs of a slide that have text, in document order
extract_run_info(slide_texts, slide) ==
    LET HasText(r) == r.original_text # <<>>
    IN  SelectSeq(RunInfo(slide_texts, slide), HasText)

RunObjects(doc) == UNION {{<<k, i>> : i \in DOMAIN doc[k]} : k \in DOMAIN doc}

\* the texts a model may put after the colon of the line of a queued item
ModelTexts == {<<" ">> \o Hello, world \o <<"<">>, <<>>}

\* the replies of the model: each queued item is answered or left out
RECURSIVE ModelReplies(_)
ModelReplies(queue) ==
    IF queue = <<>> THEN {<<>>}
    ELSE LET rest == ModelReplies(Tail(queue))
         IN  rest \cup
             {<<Head(queue).id \o <<":">> \o t>> \o r :
                 t \in ModelTexts, r \in rest}

\* load_cache: the content of the file (a missing file reads as empty)
load_cache == disk_cache

Init ==
    /\ pc = "start"
    /\ invocation = 1
    /\ slides \in Documents
    /\ disk_cache \in CacheFiles(slides)
    /\ arg = disk_cache
    /\ run_text = [r \in RunObjects(slides) |-> slides[r[1]][r[2]]]
    /\ translation_cache = EmptyMap
    /\ text_id_counter = 0
    /\ start_counter = 0
    /\ slide_idx = 1
    /\ global_texts_for_llm_prompt = <<>>
    /\ all_processed_run_details = <<>>
    /\ pending_page_cache_updates = EmptyMap
    /\ llm_response_lines = <<>>
    /\ model_calls = 0
    /\ save_calls = 0
    /\ first_run = NoValue
    /\ formatted_text_for_llm = None
    /\ warnings = <<>>
    /\ assignments = [r \in RunObjects(slides) |-> 0]
    /\ last_plan = NoPlan
    /\ res = NoValue
    /\ CliIdle

\* main 63-77: the input is copied and opened; a deck without slides ends
\* the run
EmptyDeckExit ==
    /\ pc = "start"
    /\ Len(slides) = 0
    /\ pc' = "done"
    /\ UNCHANGED cliVars
    /\ UNCHANGED <<invocation, slides, run_text, translation_cache,
                   disk_cache, text_id_counter, slide_idx,
                   global_texts_for_llm_prompt, all_processed_run_details,
                   pending_page_cache_updates, llm_response_lines,
                   model_calls, save_calls, first_run,
                   formatted_text_for_llm, warnings, assignments, start_counter,
                   last_plan, arg, res>>

\* main 138-148: the cache is loaded
LoadCache ==
    /\ pc = "start"
    /\ Len(slides) > 0
    /\ pc' = "plan"
    /\ translation_cache' = load_cache
    /\ UNCHANGED cliVars
    /\ UNCHANGED <<invocation, slides, run_text, disk_cache,
                   text_id_counter, slide_idx, global_texts_for_llm_prompt,
                   all_processed_run_details, pending_page_cache_updates,
                   llm_response_lines, model_calls, save_calls, first_run,
                   formatted_text_for_llm, warnings, assignments,
                   start_counter, last_plan, arg, res>>

\* a variant that tests the translation for truth, so that an empty string
\* counts as no translation
RECURSIVE apply_translations_truthy(_, _)
apply_translations_truthy(texts, details) ==
    IF details = <<>> THEN texts
    ELSE LET item == Head(details)
         IN  apply_translations_truthy(
                 IF item.final_translation \notin {None, <<>>}
                 THEN [texts EXCEPT ![item.run_object] =
                                        item.final_translation]
                 ELSE texts,
                 Tail(details))

\* main 456-465: the texts after the loop over the run records
RECURSIVE apply_translations(_, _)
apply_translations(texts, details) ==
    IF details = <<>> THEN texts
    ELSE LET item == Head(details)
         IN  apply_translations(
                 IF item.final_translation # None
                 THEN [texts EXCEPT ![item.run_object] =
                                        item.final_translation]
                 ELSE texts,
                 Tail(details))

\* main 460-464: the runs the loop warns about, in the order of the records
RECURSIVE writer_warnings(_)
writer_warnings(details) ==
    IF details = <<>> THEN <<>>
    ELSE LET item == Head(details)
         IN  (IF item.final_translation = None /\ ~item.from_cache
              THEN <<item.run_object>>
              ELSE <<>>) \o writer_warnings(Tail(details))

\* main 459: how often the loop assigns run.text, per run
RECURSIVE count_assignments(_, _)
count_assignments(counts, details) ==
    IF details = <<>> THEN counts
    ELSE LET item == Head(details)
         IN  count_assignments(
                 IF item.final_translation # None
                 THEN [counts EXCEPT ![item.run_object] = @ + 1]
                 ELSE counts,
                 Tail(details))

\* a variant of the loop that writes the cached translations of a slide as
\* soon as the slide is planned
PlanSlideWriting ==
    /\ pc = "plan"
    /\ slide_idx <= Len(slides)
    /\ slide_idx' = slide_idx + 1
    /\ LET info == extract_run_info(slides[slide_idx], slide_idx)
       IN  IF info = <<>>
           THEN UNCHANGED <<text_id_counter, global_texts_for_llm_prompt,
                            all_processed_run_details,
                            pending_page_cache_updates, last_plan>>
           ELSE PlanPage(info, slide_idx)
    /\ run_text' = apply_translations(run_text, all_processed_run_details')
    /\ UNCHANGED cliVars
    /\ UNCHANGED <<pc, invocation, slides, translation_cache,
                   disk_cache, llm_response_lines, model_calls, save_calls,
                   first_run, formatted_text_for_llm, warnings, assignments,
                   start_counter, arg, res>>

\* main 154-283: one slide of the loop
PlanSlide ==
    /\ pc = "plan"
    /\ slide_idx <= Len(slides)
    /\ slide_idx' = slide_idx + 1
    /\ LET info == extract_run_info(slides[slide_idx], slide_idx)
       IN  IF info = <<>>
           THEN UNCHANGED <<text_id_counter, global_texts_for_llm_prompt,
                            all_processed_run_details,
                            pending_page_cache_updates, last_plan>>
           ELSE PlanPage(info, slide_idx)
    /\ UNCHANGED cliVars
    /\ UNCHANGED <<pc, invocation, slides, run_text, translation_cache,
                   disk_cache, llm_response_lines, model_calls, save_calls,
                   first_run,
                   formatted_text_for_llm, warnings, assignments, start_counter, arg, res>>

\* main 285-300: no text on any selected slide
NoTextExit ==
    /\ pc = "plan"
    /\ slide_idx > Len(slides)
    /\ all_processed_run_details = <<>>
    /\ pc' = "done"
    /\ save_cache(translation_cache)
    /\ UNCHANGED cliVars
    /\ UNCHANGED <<invocation, slides, run_text, translation_cache,
                   text_id_counter, slide_idx, global_texts_for_llm_prompt,
                   all_processed_run_details, pending_page_cache_updates,
                   llm_response_lines, model_calls, first_run,
                   formatted_text_for_llm, warnings, assignments,
                   start_counter, last_plan, arg, res>>

\* main 306-307: nothing is queued, the model is not called
SkipModel ==
    /\ pc = "plan"
    /\ slide_idx > Len(slides)
    /\ all_processed_run_details # <<>>
    /\ global_texts_for_llm_prompt = <<>>
    /\ pc' = "write"
    /\ UNCHANGED cliVars
    /\ UNCHANGED <<invocation, slides, run_text, translation_cache,
                   disk_cache, text_id_counter, slide_idx,
                   global_texts_for_llm_prompt, all_processed_run_details,
                   pending_page_cache_updates, llm_response_lines,
                   model_calls, save_calls, first_run,
                   formatted_text_for_llm, warnings, assignments, start_counter,
                   last_plan, arg, res>>

\* main 316-321: the data block of the prompt, one line id:text_to_send per
\* queued item, joined with newlines
data_lines(queue) ==
    [i \in DOMAIN queue |-> queue[i].id \o <<":">> \o queue[i].text_to_send]

\* a variant that joins the lines with spaces
format_data_block_spaces(queue) == str_join(<<" ">>, data_lines(queue))

format_data_block(queue) == str_join(<<"\n">>, data_lines(queue))

\* main 308-366: the one prompt is sent, the reply is split into lines
CallModel ==
    /\ pc = "plan"
    /\ slide_idx > Len(slides)
    /\ global_texts_for_llm_prompt # <<>>
    /\ pc' = "reconcile"
    /\ model_calls' = model_calls + 1
    /\ formatted_text_for_llm' = format_data_block(global_texts_for_llm_prompt)
    /\ llm_response_lines' \in ModelReplies(global_texts_for_llm_prompt)
    /\ UNCHANGED cliVars
    /\ UNCHANGED <<invocation, slides, run_text, translation_cache,
                   disk_cache, text_id_counter, slide_idx,
                   global_texts_for_llm_prompt, all_processed_run_details,
                   pending_page_cache_updates, save_calls, first_run,
                   warnings, assignments, start_counter, last_plan, arg,
                   res>>

\* main 366-451: the reply is reconciled
ReconcileReply ==
    /\ pc = "reconcile"
    /\ pc' = "write"
    /\ Reconcile(llm_response_lines)
    /\ UNCHANGED cliVars
    /\ UNCHANGED <<invocation, slides, run_text, translation_cache,
                   disk_cache, text_id_counter, slide_idx,
                   global_texts_for_llm_prompt, llm_response_lines,
                   model_calls, save_calls, first_run,
                   formatted_text_for_llm, warnings, assignments, start_counter,
                   last_plan, arg, res>>

WriteRuns ==
    /\ pc = "write"
    /\ pc' = "commit"
    /\ run_text' = apply_translations(run_text, all_processed_run_details)
    /\ warnings' = warnings \o writer_warnings(all_processed_run_details)
    /\ assignments' = count_assignments(assignments,
                                        all_processed_run_details)
    /\ UNCHANGED cliVars
    /\ UNCHANGED <<invocation, slides, translation_cache, disk_cache,
                   text_id_counter, slide_idx, global_texts_for_llm_prompt,
                   all_processed_run_details, pending_page_cache_updates,
                   llm_response_lines, model_calls, save_calls, first_run,
                   formatted_text_for_llm, start_counter, last_plan, arg,
                   res>>

\* main 471-537: the pending updates are merged and the cache is saved
Commit ==
    /\ pc = "commit"
    /\ pc' = "done"
    /\ DoCommit
    /\ UNCHANGED cliVars
    /\ UNCHANGED <<invocation, slides, run_text, text_id_counter, slide_idx,
                   global_texts_for_llm_prompt, all_processed_run_details,
                   pending_page_cache_updates, llm_response_lines,
                   model_calls, first_run, formatted_text_for_llm, warnings,
                   assignments, start_counter, last_plan, arg, res>>

\* the tool is run a second time on the unchanged input: a new process, a
\* new copy of the input, the cache file as the first run left it
RunAgain ==
    /\ pc = "done"
    /\ invocation = 1
    /\ invocation' = 2
    /\ pc' = "start"
    /\ first_run' = [run_text |-> run_text,
                     details |-> all_processed_run_details,
                     model_calls |-> model_calls]
    /\ run_text' = [r \in RunObjects(slides) |-> slides[r[1]][r[2]]]
    /\ translation_cache' = EmptyMap
    /\ text_id_counter' = 0
    /\ slide_idx' = 1
    /\ global_texts_for_llm_prompt' = <<>>
    /\ all_processed_run_details' = <<>>
    /\ pending_page_cache_updates' = EmptyMap
    /\ llm_response_lines' = <<>>
    /\ model_calls' = 0
    /\ save_calls' = 0
    /\ last_plan' = NoPlan
    /\ formatted_text_for_llm' = None
    /\ warnings' = <<>>
    /\ assignments' = [r \in RunObjects(slides) |-> 0]
    /\ arg' = disk_cache
    /\ UNCHANGED cliVars
    /\ UNCHANGED <<slides, disk_cache, start_counter, res>>

Next ==
    \/ EmptyDeckExit
    \/ LoadCache
    \/ PlanSlide
    \/ NoTextExit
    \/ SkipModel
    \/ CallModel
    \/ ReconcileReply
    \/ WriteRuns
    \/ Commit
    \/ RunAgain

Spec == Init /\ [][Next]_vars

(***************************************************************************)
(* SpecLive: main as a sequential program that keeps running: every step   *)
(* of an invocation is taken when it can be, the model call returns.  A    *)
(* second invocation may or may not follow.                                *)
(***************************************************************************)
InvocationStep ==
    \/ EmptyDeckExit
    \/ LoadCache
    \/ PlanSlide
    \/ NoTextExit
    \/ SkipModel
    \/ CallModel
    \/ ReconcileReply
    \/ WriteRuns
    \/ Commit

\* every step of an invocation moves pc or the slide loop
position == <<pc, slide_idx>>

\* what a step of an invocation does to the position: a step of main from a
\* state is possible exactly when this is, and a step of Next that moves the
\* position this way is a step of the invocation
Advance ==
    \/ /\ pc = "start"
       /\ pc' = IF Len(slides) = 0 THEN "done" ELSE "plan"
       /\ slide_idx' = slide_idx
    \/ /\ pc = "plan"
       /\ slide_idx <= Len(slides)
       /\ pc' = pc
       /\ slide_idx' = slide_idx + 1
    \/ /\ pc = "plan"
       /\ slide_idx > Len(slides)
       /\ pc' = IF all_processed_run_details = <<>> THEN "done"
                ELSE IF global_texts_for_llm_prompt = <<>> THEN "write"
                ELSE "reconcile"
       /\ slide_idx' = slide_idx
    \/ /\ pc \in {"reconcile", "write", "commit"}
       /\ pc' = CASE pc = "reconcile" -> "write"
                  [] pc = "write" -> "commit"
                  [] pc = "commit" -> "done"
       /\ slide_idx' = slide_idx

\* the steps of Next that move the position are the steps of an invocation
\* and move it as Advance says
AdvanceIsInvocationStep ==
    (position' # position /\ invocation' = invocation) <=> Advance

SpecLive == Init /\ [][Next]_vars /\ WF_position(Advance)

HasRecord(r) ==
    \E i \in DOMAIN all_processed_run_details :
        all_processed_run_details[i].run_object = r

RecordOf(r) ==
    all_processed_run_details[
        CHOOSE i \in DOMAIN all_processed_run_details :
            all_processed_run_details[i].run_object = r]

\* the state of the record of a run, read from the records and the position
\* of main
RunState(r) ==
    IF ~HasRecord(r) THEN "NOT_PLANNED"
    ELSE IF pc \in {"commit", "done"} THEN "WRITTEN"
    ELSE IF RecordOf(r).from_cache THEN "CACHE_HIT"
    ELSE IF pc \in {"plan", "reconcile"} THEN "QUEUED"
    ELSE IF RecordOf(r).final_translation # None THEN "RECONCILED"
    ELSE "UNRESOLVED"

LifeCycleSteps ==
    {<<"NOT_PLANNED", "CACHE_HIT">>, <<"NOT_PLANNED", "QUEUED">>,
     <<"CACHE_HIT", "WRITTEN">>,
     <<"QUEUED", "RECONCILED">>, <<"QUEUED", "UNRESOLVED">>,
     <<"RECONCILED", "WRITTEN">>, <<"UNRESOLVED", "WRITTEN">>,
     <<"WRITTEN", "NOT_PLANNED">>}

\* a record moves along the life cycle (WRITTEN is left only when the tool
\* is started again), and only the record of a queued run gets a
\* translation after planning
LifeCycleStep ==
    \A r \in DOMAIN run_text :
        \/ RunState(r)' = RunState(r)
        \/ /\ <<RunState(r), RunState(r)'>> \in LifeCycleSteps
           /\ RunState(r) = "WRITTEN" => invocation' # invocation

AssignedOnce ==
    \A r \in DOMAIN run_text :
        /\ assignments[r] <= 1
        /\ assignments[r] > 0 => RunState(r) = "WRITTEN"
        /\ assignments[r] = 0 /\ pc # "done" => run_text[r] = slides[r[1]][r[2]]

AllWritten == \A r \in DOMAIN run_text : RunState(r) = "WRITTEN"

\* C12: in translate mode, with the model call returning, the record of
\* every run with text on a slide goes from not planned to CACHE_HIT or
\* QUEUED, from QUEUED to RECONCILED or UNRESOLVED, and ends WRITTEN; the
\* text of a run is assigned at most once in an invocation and never before
\* its record is past planning and reconciliation.
C12_LifeCycle ==
    /\ [][LifeCycleStep]_vars
    /\ []AssignedOnce
    /\ (pc = "start") ~> AllWritten

C12_Witness ==
    /\ invocation = 1
    /\ pc = "done"
    /\ slides = <<<<Hei, maailma>>>>
    /\ RecordOf(<<1, 1>>).from_cache
    /\ ~RecordOf(<<1, 2>>).from_cache
    /\ RecordOf(<<1, 2>>).final_translation = None
    /\ assignments = (<<1, 1>> :> 1) @@ (<<1, 2>> :> 0)
    /\ RunState(<<1, 2>>) = "WRITTEN"

\* the lines of a text: the pieces between its newlines
RECURSIVE LinesOf(_)
LinesOf(text) ==
    IF FirstIndex(text, "\n") = 0 THEN <<text>>
    ELSE <<SubSeq(text, 1, FirstIndex(text, "\n") - 1)>> \o
         LinesOf(SubSeq(text, FirstIndex(text, "\n") + 1, Len(text)))

ModelCalled == pc \in {"reconcile", "write", "commit"} \/
               (pc = "done" /\ all_processed_run_details # <<>>)

RecordsOfSlide(details, k) ==
    LET OnSlide(item) == item.run_object[1] = k
    IN  SelectSeq(details, OnSlide)

SameInvocation == invocation' = invocation

\* slides are planned one at a time in selection order, each adding the
\* records of its runs, in run order, after the records already there, and
\* only before the model call
PlannedInOrder ==
    /\ slide_idx' # slide_idx /\ SameInvocation =>
          /\ pc = "plan" /\ model_calls = 0
          /\ slide_idx' = slide_idx + 1
          /\ LET added == RecordsOfSlide(all_processed_run_details',
                                          slide_idx)
             IN  /\ all_processed_run_details' =
                        all_processed_run_details \o added
                 /\ [i \in DOMAIN added |-> added[i].run_object] =
                        [i \in DOMAIN slides[slide_idx] |-> <<slide_idx, i>>]
    /\ Len(all_processed_run_details') # Len(all_processed_run_details)
       /\ SameInvocation => pc = "plan"

\* the model is called when every slide has been planned
CalledAfterPlanning ==
    model_calls' # model_calls /\ SameInvocation =>
        /\ pc = "plan"
        /\ slide_idx > Len(slides)
        /\ \A r \in DOMAIN run_text : HasRecord(r)
        /\ UNCHANGED <<all_processed_run_details, run_text, translation_cache,
                       disk_cache>>

\* the reply is reconciled in one step after the call and before the writer
ReconciledBeforeWriting ==
    /\ all_processed_run_details' # all_processed_run_details
       /\ SameInvocation => pc \in {"plan", "reconcile"}
    /\ pending_page_cache_updates' # pending_page_cache_updates
       /\ SameInvocation => pc \in {"plan", "reconcile"}
    /\ run_text' # run_text /\ SameInvocation =>
          /\ pc = "write"
          /\ UNCHANGED <<all_processed_run_details, translation_cache,
                         disk_cache, save_calls>>
    /\ pc = "reconcile" => pc' \in {"reconcile", "write"}

\* the cache is committed and saved after the writer; the map is as it was
\* loaded until the commit
CommittedLast ==
    /\ translation_cache' # translation_cache /\ SameInvocation =>
          pc \in {"start", "commit"}
    /\ pc = "start" /\ pc' = "plan" => translation_cache' = disk_cache
    /\ (disk_cache' # disk_cache \/ save_calls' # save_calls)
       /\ SameInvocation =>
          /\ \/ pc = "commit"
             \/ pc = "plan" /\ all_processed_run_details = <<>>
                            /\ disk_cache' = translation_cache
          /\ UNCHANGED <<run_text, all_processed_run_details>>
    /\ pc = "write" => pc' \in {"write", "commit"}
    /\ pc = "commit" => pc' \in {"commit", "done"}

\* C14: in an invocation the slides are planned in selection order before
\* the model call, the reply is reconciled before any run text is written,
\* the run texts are written before the cache is committed and saved, and
\* the cache map is not modified between its load and the commit.
C14_PhaseOrder ==
    [][/\ PlannedInOrder
       /\ CalledAfterPlanning
       /\ ReconciledBeforeWriting
       /\ CommittedLast]_vars

C14_Witness ==
    /\ pc = "done"
    /\ invocation = 1
    /\ slides = <<<<Hei>>, <<maailma>>>>
    /\ model_calls = 1
    /\ save_calls = 1
    /\ translation_cache # arg
    /\ \A r \in DOMAIN run_text : assignments[r] = 1

\* the entry of the page with these texts has a pair for each of them
FullHit(cache, texts) ==
    /\ generate_page_hash(texts) \in DOMAIN cache
    /\ \A i \in DOMAIN texts :
          InCachedList(cache, generate_page_hash(texts), texts[i])

\* the translation of the first pair of the page's entry for the text
CachedTranslation(cache, texts, text) ==
    LET list == cache[generate_page_hash(texts)]
        k == CHOOSE i \in DOMAIN list :
                 /\ list[i].original_text = text
                 /\ \A j \in 1..(i - 1) : list[j].original_text # text
    IN  list[k].translation

\* every slide with text is a full hit in the cache file the invocation
\* started with
AllPagesWarm ==
    /\ \E k \in DOMAIN slides : slides[k] # <<>>
    /\ \A k \in DOMAIN slides : slides[k] # <<>> => FullHit(arg, slides[k])

\* C15: the planner queues nothing for a page whose cache entry has a pair
\* for every run text of the page; when every page with text is such a
\* page, the invocation builds no prompt, makes no model call, writes to
\* every run its cached translation, stages no cache update, and leaves
\* the cache map and the cache file with the content they had.
C15_WarmFullHit ==
    /\ last_plan.called
       /\ FullHit(last_plan.cache, Texts(last_plan.slide_run_info)) =>
          /\ last_plan.out.texts_for_llm = <<>>
          /\ ~last_plan.out.page_requires_llm_processing
          /\ last_plan.out.text_id_counter = last_plan.counter
    /\ AllPagesWarm =>
          /\ global_texts_for_llm_prompt = <<>>
          /\ pending_page_cache_updates = EmptyMap
          /\ formatted_text_for_llm = None
          /\ model_calls = 0
          /\ pc # "reconcile"
          /\ pc # "start" => translation_cache = arg
          /\ disk_cache = arg
          /\ pc \in {"commit", "done"} =>
                \A r \in DOMAIN run_text :
                    /\ run_text[r] = CachedTranslation(arg, slides[r[1]],
                                                       slides[r[1]][r[2]])
                    /\ assignments[r] = 1
          /\ pc = "done" => save_calls = 1

C15_Witness ==
    /\ pc = "done"
    /\ invocation = 2
    /\ slides = <<<<Hei>>, <<maailma>>>>
    /\ AllPagesWarm
    /\ first_run.model_calls = 1
    /\ model_calls = 0
    /\ save_calls = 1
    /\ run_text[<<1, 1>>] = Hello
    /\ run_text[<<2, 1>>] = world

(***************************************************************************)
(* SpecHash: generate_page_hash applied to two lists of non-empty run      *)
(* texts.  The digest is taken as injective, so a fingerprint is the       *)
(* joined string it is computed from.                                      *)
(***************************************************************************)
HashAlphabet == {"a", "|"}

HashTexts == SeqsUpTo(HashAlphabet, MaxRuns) \ {<<>>}

HashInit ==
    /\ pc = "hash"
    /\ arg \in SeqsUpTo(HashTexts, MaxRuns) \X SeqsUpTo(HashTexts, MaxRuns)
    /\ res = NoValue
    /\ MainIdle
    /\ translation_cache = EmptyMap
    /\ disk_cache = EmptyMap
    /\ text_id_counter = 0
    /\ slide_idx = 0
    /\ global_texts_for_llm_prompt = <<>>
    /\ all_processed_run_details = <<>>
    /\ pending_page_cache_updates = EmptyMap
    /\ llm_response_lines = <<>>
    /\ save_calls = 0
    /\ start_counter = 0
    /\ last_plan = NoPlan

HashStep ==
    /\ pc = "hash"
    /\ pc' = "hashed"
    /\ res' = <<generate_page_hash(arg[1]), generate_page_hash(arg[2])>>
    /\ UNCHANGED <<arg, mainVars, translation_cache, disk_cache,
                   text_id_counter, slide_idx, global_texts_for_llm_prompt,
                   all_processed_run_details, pending_page_cache_updates,
                   llm_response_lines, save_calls, start_counter, last_plan>>

HashNext == HashStep

SpecHash == HashInit /\ [][HashNext]_vars

\* no text of the list contains the delimiter
WithoutDelimiter(texts) ==
    \A i \in DOMAIN texts : "|" \notin Range(texts[i])

\* C16: two lists of non-empty run texts that differ (in an element, in
\* the number of runs or in the order) have different fingerprints.
C16_FingerprintSensitive ==
    pc = "hashed" => (arg[1] # arg[2] => res[1] # res[2])

\* the same for lists whose texts do not contain the delimiter
FingerprintSensitiveWithoutDelimiter ==
    pc = "hashed" /\ WithoutDelimiter(arg[1]) /\ WithoutDelimiter(arg[2])
        => (arg[1] # arg[2] => res[1] # res[2])

(***************************************************************************)
(* SpecWriter: the writer loop of main applied to any list of run records: *)
(* with and without a translation, the empty translation, served from the  *)
(* cache or not.                                                           *)
(***************************************************************************)
WriterTranslations == {None, <<>>, Hello}

\* the records a slide with the given texts may have when the loop starts
WriterRecords(texts) ==
    {details \in [DOMAIN texts ->
                     [run_object : {<<1, i>> : i \in DOMAIN texts},
                      final_translation : WriterTranslations,
                      from_cache : BOOLEAN,
                      original_text : RunTexts,
                      llm_id : {None} \cup
                               {format_text_id(1, i - 1) : i \in DOMAIN texts}]] :
        \A i \in DOMAIN texts :
            /\ details[i].run_object = <<1, i>>
            /\ details[i].original_text = texts[i]
            /\ details[i].llm_id =
                   IF details[i].from_cache THEN None
                   ELSE format_text_id(1, i - 1)}

WriterInit ==
    /\ pc = "write"
    /\ invocation = 1
    /\ \E texts \in SeqsUpTo(RunTexts, MaxRuns) :
          /\ slides = <<texts>>
          /\ all_processed_run_details \in WriterRecords(texts)
    /\ run_text = [r \in RunObjects(slides) |-> slides[r[1]][r[2]]]
    /\ assignments = [r \in RunObjects(slides) |-> 0]
    /\ warnings = <<>>
    /\ formatted_text_for_llm = None
    /\ translation_cache = EmptyMap
    /\ disk_cache = EmptyMap
    /\ text_id_counter = 0
    /\ start_counter = 0
    /\ slide_idx = 2
    /\ global_texts_for_llm_prompt = <<>>
    /\ pending_page_cache_updates = EmptyMap
    /\ llm_response_lines = <<>>
    /\ model_calls = 0
    /\ save_calls = 0
    /\ first_run = NoValue
    /\ last_plan = NoPlan
    /\ arg = NoValue
    /\ res = NoValue
    /\ CliIdle

WriterNext == WriteRuns

SpecWriter == WriterInit /\ [][WriterNext]_vars

\* C11: after the writer loop, a run whose record has a translation (the
\* empty string included) has that translation as its text and is not
\* warned about; a run whose record has no translation keeps its original
\* text, and is warned about exactly when the record was not served from
\* the cache.
C11_RunWriter ==
    pc = "commit" =>
        \A i \in DOMAIN all_processed_run_details :
            LET item == all_processed_run_details[i]
                warned == item.run_object \in Range(warnings)
            IN  IF item.final_translation # None
                THEN /\ run_text[item.run_object] = item.final_translation
                     /\ ~warned
                ELSE /\ run_text[item.run_object] = item.original_text
                     /\ warned <=> ~item.from_cache

C11_Witness ==
    /\ pc = "commit"
    /\ Len(all_processed_run_details) = 2
    /\ all_processed_run_details[1].final_translation = <<>>
    /\ all_processed_run_details[2].final_translation = None
    /\ ~all_processed_run_details[2].from_cache
    /\ run_text[<<1, 1>>] = <<>>
    /\ run_text[<<1, 2>>] = maailma
    /\ warnings = <<<<1, 2>>>>

(***************************************************************************)
(* The second run against the first.                                       *)
(***************************************************************************)
\* the fingerprint of the slide a run record belongs to
PageHashOf(detail) ==
    generate_page_hash(Texts(extract_run_info(slides[detail.run_object[1]],
                                              detail.run_object[1])))

\* every run the first run queued received a reply line
AllAnswered(details) ==
    \A i \in DOMAIN details : details[i].final_translation # None

\* every page of the first run was served entirely from the cache or
\* queued entirely
NoPartialHit(details) ==
    \A i, j \in DOMAIN details :
        details[i].run_object[1] = details[j].run_object[1]
            => details[i].from_cache = details[j].from_cache

\* queued runs with the same text on pages with the same fingerprint
\* received the same translation
ConsistentAnswers(details) ==
    \A i, j \in DOMAIN details :
        /\ ~details[i].from_cache
        /\ ~details[j].from_cache
        /\ details[i].original_text = details[j].original_text
        /\ PageHashOf(details[i]) = PageHashOf(details[j])
        => details[i].final_translation = details[j].final_translation

SecondRunDone == pc = "done" /\ invocation = 2

pg1_txt0 == <<"p", "g", "1", "_", "t", "x", "t", "0">>
pg1_txt1 == <<"p", "g", "1", "_", "t", "x", "t", "1">>

ScenarioInput ==
    /\ invocation = 1
    /\ slides = <<<<Hei, maailma>>>>
    /\ arg = EmptyMap

ScenarioReply ==
    <<pg1_txt0 \o <<":", " ">> \o Hello,
      pg1_txt1 \o <<":">> \o world \o EOL_MARKER>>

ScenarioQueued ==
    (ScenarioInput /\ pc \in {"reconcile", "write", "commit", "done"})
    => /\ Len(global_texts_for_llm_prompt) = 2
       /\ global_texts_for_llm_prompt[1].id = pg1_txt0
       /\ global_texts_for_llm_prompt[2].id = pg1_txt1
       /\ global_texts_for_llm_prompt[1].text_to_send = Hei \o EOL_MARKER
       /\ global_texts_for_llm_prompt[2].text_to_send =
              maailma \o EOL_MARKER
       /\ model_calls = 1

ScenarioCache(first, second) ==
    (ScenarioInput /\ llm_response_lines = ScenarioReply /\ pc = "done")
    => /\ DOMAIN disk_cache = {generate_page_hash(<<Hei, maailma>>)}
       /\ disk_cache[generate_page_hash(<<Hei, maailma>>)] =
              <<Pair(Hei, first), Pair(maailma, second)>>

ScenarioCacheShape ==
    (ScenarioInput /\ llm_response_lines = ScenarioReply /\ pc = "done")
    => /\ DOMAIN disk_cache = {generate_page_hash(<<Hei, maailma>>)}
       /\ Len(disk_cache[generate_page_hash(<<Hei, maailma>>)]) = 2

ScenarioWritten(first, second) ==
    (/\ ScenarioInput
     /\ llm_response_lines = ScenarioReply
     /\ pc \in {"commit", "done"})
    => /\ run_text[<<1, 1>>] = first
       /\ run_text[<<1, 2>>] = second

RECURSIVE str_split(_, _)
str_split(s, sep) ==
    IF FirstIndex(s, sep) = 0 THEN <<s>>
    ELSE <<SubSeq(s, 1, FirstIndex(s, sep) - 1)>> \o
         str_split(SubSeq(s, FirstIndex(s, sep) + 1, Len(s)), sep)

IsDigit(c) == c \in {"0", "1", "2", "3", "4", "5", "6", "7", "8", "9"}

DigitValue(c) == CHOOSE d \in 0..9 : Digit(d) = c

RECURSIVE digits_value(_)
digits_value(s) ==
    IF s = <<>> THEN 0
    ELSE 10 * digits_value(SubSeq(s, 1, Len(s) - 1)) + DigitValue(s[Len(s)])

\* int(s) for a stripped string: an optional sign and decimal digits;
\* anything else is a ValueError
parse_int(s) ==
    LET signed == s # <<>> /\ Head(s) \in {"+", "-"}
        digits == IF signed THEN Tail(s) ELSE s
    IN  IF digits = <<>> \/ \E i \in DOMAIN digits : ~IsDigit(digits[i])
        THEN [ok |-> FALSE, value |-> 0]
        ELSE [ok |-> TRUE,
              value |-> IF signed /\ Head(s) = "-"
                        THEN 0 - digits_value(digits)
                        ELSE digits_value(digits)]

\* the state of the loop over the parts: the set so far, the warnings
\* echoed so far, and the exception if one was raised
InitialSelection ==
    [raised |-> FALSE, error |-> "", part |-> <<>>, pages |-> {},
     warnings |-> <<>>]

\* the pages are kept as they are written, 1-indexed: a variant of Selected
SelectedOneIndexed(st, page_set) ==
    [st EXCEPT !.pages = st.pages \cup {i + 1 : i \in page_set}]

\* the pages of a part replace the set instead of being added to it: a
\* variant of Selected
SelectedReplacing(st, page_set) == [st EXCEPT !.pages = page_set]

Selected(st, page_set) ==
    [st EXCEPT !.pages = st.pages \cup page_set]

\* a start beyond the deck is an error: a variant of Warned
WarnedAsError(st, kind, part_specifier) ==
    [st EXCEPT !.raised = TRUE, !.error = kind, !.part = part_specifier]

Warned(st, kind, part_specifier) ==
    [st EXCEPT !.warnings = Append(st.warnings, <<kind, part_specifier>>)]

\* raise click.BadParameter: nothing is returned
Raise(st, kind, part_specifier) ==
    [st EXCEPT !.raised = TRUE, !.error = kind, !.part = part_specifier,
               !.pages = None]

\* a missing end is no end at all: a variant of end_page
end_page_unbounded(end_str, total_slides) ==
    IF end_str # <<>> THEN parse_int(end_str).value
    ELSE total_slides + 1000

\* page_range.py 58-68: the end of a range, the last slide when it is missing
end_page(end_str, total_slides) ==
    IF end_str # <<>> THEN parse_int(end_str).value ELSE total_slides

\* page_range.py 38-99: a part with a "-"
range_part(st, part_specifier, part, total_slides) ==
    LET cut == FirstIndex(part, "-")
        start_str == str_strip(SubSeq(part, 1, cut - 1))
        end_str == str_strip(SubSeq(part, cut + 1, Len(part)))
        start_int == parse_int(start_str)
        end_int == parse_int(end_str)
        start_page_1_indexed == IF start_str # <<>> THEN start_int.value
                                ELSE 1
        end_page_1_indexed == end_page(end_str, total_slides)
        last == IF end_page_1_indexed < total_slides THEN end_page_1_indexed
                ELSE total_slides
    IN  IF start_str # <<>> /\ ~start_int.ok
        THEN Raise(st, "invalid_start", part_specifier)
        ELSE IF start_str # <<>> /\ start_int.value < 1
        THEN Raise(st, "start_not_positive", part_specifier)
        ELSE IF end_str # <<>> /\ ~end_int.ok
        THEN Raise(st, "invalid_end", part_specifier)
        ELSE IF end_str # <<>> /\ end_int.value < 1
        THEN Raise(st, "end_not_positive", part_specifier)
        ELSE IF start_page_1_indexed > end_page_1_indexed
        THEN Raise(st, "start_greater_than_end", part_specifier)
        ELSE IF start_page_1_indexed > total_slides
        THEN Warned(st, "start_beyond_total", part_specifier)
        ELSE Selected(
                 IF end_str # <<>> /\ end_page_1_indexed > total_slides
                 THEN Warned(st, "end_beyond_total", part_specifier)
                 ELSE st,
                 {i - 1 : i \in start_page_1_indexed..last})

\* any page number is taken: a variant of single_part
single_part_unchecked(st, part_specifier, part, total_slides) ==
    LET page == parse_int(part)
    IN  IF ~page.ok THEN Raise(st, "invalid_page", part_specifier)
        ELSE Selected(st, {page.value - 1})

\* page_range.py 100-110: a single page
single_part(st, part_specifier, part, total_slides) ==
    LET page == parse_int(part)
    IN  IF ~page.ok THEN Raise(st, "invalid_page", part_specifier)
        ELSE IF ~(1 <= page.value /\ page.value <= total_slides)
        THEN Raise(st, "page_out_of_range", part_specifier)
        ELSE Selected(st, {page.value - 1})

\* page_range.py 33-110: the loop over the parts; an exception ends it
RECURSIVE parse_parts(_, _, _)
parse_parts(st, parts, total_slides) ==
    IF parts = <<>> \/ st.raised THEN st
    ELSE LET part_specifier == Head(parts)
             part == str_strip(part_specifier)
         IN  parse_parts(
                 IF part = <<>> THEN st
                 ELSE IF FirstIndex(part, "-") # 0
                 THEN range_part(st, part_specifier, part, total_slides)
                 ELSE single_part(st, part_specifier, part, total_slides),
                 Tail(parts), total_slides)

\* a variant without the branch for a deck that has no slides
parse_page_range_any_deck(range_str, total_slides) ==
    IF str_strip(range_str) = <<>>
    THEN Raise(InitialSelection, "empty", range_str)
    ELSE parse_parts(InitialSelection, str_split(range_str, ","),
                     total_slides)

\* parse_page_range: what it returns (pages, with the warnings it echoed)
\* or the exception it raises
parse_page_range(range_str, total_slides) ==
    LET st0 == InitialSelection
    IN  IF total_slides = 0
        THEN IF range_str # <<>>
             THEN Raise(st0, "no_slides", range_str)
             ELSE st0
        ELSE IF str_strip(range_str) = <<>>
        THEN Raise(st0, "empty", range_str)
        ELSE parse_parts(st0, str_split(range_str, ","), total_slides)

(***************************************************************************)
(* SpecRange: parse_page_range applied to an expression and a slide count. *)
(* The expressions are up to MaxParts parts joined with commas; a part is  *)
(* a token, or two tokens around a "-"; a token is empty, a number (0, one *)
(* inside the deck, one beyond it) or not a number.  With them, the        *)
(* expressions the documentation gives as examples.                        *)
(***************************************************************************)
RangeNumbers == {0, 2, MaxPages + 1}

RangeTokens == {<<>>, <<"x">>} \cup {str_int(n) : n \in RangeNumbers}

RangeParts ==
    RangeTokens \cup
    {a \o <<"-">> \o b : a \in RangeTokens, b \in RangeTokens} \cup
    {<<" ", "2", " ">>, <<" ", "2", " ", "-", " ">> \o str_int(MaxPages + 1)}

RangeExpressions ==
    {str_join(<<",">>, parts) : parts \in SeqsUpTo(RangeParts, MaxParts)} \cup
    {<<" ">>}

RangeTotals == {0, 1, MaxPages}

RangeExamples ==
    {<<<<"1", ",", "3", "-", "5", ",", "8", "-">>, 7>>,
     <<<<"1", ",", "3", "-", "5", ",", "8", "-", "9">>, 7>>,
     <<<<"3", "-">>, 5>>,
     <<<<"-", "3">>, 5>>,
     <<<<"1", "0", "-">>, 5>>,
     <<<<"1", "0", "-", "1", "2">>, 12>>}

RangeInit ==
    /\ pc = "parse"
    /\ arg \in (RangeExpressions \X RangeTotals) \cup RangeExamples
    /\ res = NoValue
    /\ MainIdle
    /\ translation_cache = EmptyMap
    /\ disk_cache = EmptyMap
    /\ text_id_counter = 0
    /\ slide_idx = 0
    /\ global_texts_for_llm_prompt = <<>>
    /\ all_processed_run_details = <<>>
    /\ pending_page_cache_updates = EmptyMap
    /\ llm_response_lines = <<>>
    /\ save_calls = 0
    /\ start_counter = 0
    /\ last_plan = NoPlan

RangeStep ==
    /\ pc = "parse"
    /\ pc' = "parsed"
    /\ res' = parse_page_range(arg[1], arg[2])
    /\ UNCHANGED <<arg, mainVars, translation_cache, disk_cache,
                   text_id_counter, slide_idx, global_texts_for_llm_prompt,
                   all_processed_run_details, pending_page_cache_updates,
                   llm_response_lines, save_calls, start_counter, last_plan>>

RangeNext == RangeStep

SpecRange == RangeInit /\ [][RangeNext]_vars

(***************************************************************************)
(* The vocabulary of the claims about parse_page_range: the parts of the   *)
(* expression as the code splits them, and what a part is made of.         *)
(***************************************************************************)
Parsed == pc = "parsed" /\ arg[2] >= 1

PartsOf(range_str) == str_split(range_str, ",")

IsRangePart(part_specifier) == FirstIndex(str_strip(part_specifier), "-") # 0

StartToken(part_specifier) ==
    LET part == str_strip(part_specifier)
    IN  str_strip(SubSeq(part, 1, FirstIndex(part, "-") - 1))

EndToken(part_specifier) ==
    LET part == str_strip(part_specifier)
    IN  str_strip(SubSeq(part, FirstIndex(part, "-") + 1, Len(part)))

\* a page number as the documentation writes it: decimal digits
IsNumeral(token) ==
    token # <<>> /\ \A i \in DOMAIN token : IsDigit(token[i])

WithoutPart(parts, i) ==
    SubSeq(parts, 1, i - 1) \o SubSeq(parts, i + 1, Len(parts))

\* what the loop makes of the other parts of the expression
OtherParts(i) ==
    parse_parts(InitialSelection, WithoutPart(PartsOf(arg[1]), i), arg[2])

\* N-M with N beyond the deck and M not before N
IsClosedBeyond(part_specifier, total_slides) ==
    /\ IsRangePart(part_specifier)
    /\ IsNumeral(StartToken(part_specifier))
    /\ IsNumeral(EndToken(part_specifier))
    /\ digits_value(StartToken(part_specifier)) > total_slides
    /\ digits_value(StartToken(part_specifier))
           <= digits_value(EndToken(part_specifier))

\* N- with N beyond the deck
IsOpenBeyond(part_specifier, total_slides) ==
    /\ IsRangePart(part_specifier)
    /\ IsNumeral(StartToken(part_specifier))
    /\ EndToken(part_specifier) = <<>>
    /\ digits_value(StartToken(part_specifier)) > total_slides

\* the part raises nothing and adds nothing to what the other parts give
ContributesNothing(i) ==
    /\ ~res.raised
    /\ res.pages = OtherParts(i).pages

DocumentedExample ==
    <<<<"1", ",", "3", "-", "5", ",", "8", "-">>, 7>>

ClosedExample ==
    <<<<"1", ",", "3", "-", "5", ",", "8", "-", "9">>, 7>>

PartsBefore(i) ==
    parse_parts(InitialSelection, SubSeq(PartsOf(arg[1]), 1, i - 1), arg[2])

StartValue(part_specifier) ==
    IF StartToken(part_specifier) = <<>> THEN 1
    ELSE digits_value(StartToken(part_specifier))

EndValue(part_specifier, total_slides) ==
    IF EndToken(part_specifier) = <<>> THEN total_slides
    ELSE digits_value(EndToken(part_specifier))

\* N-M, N- or -M (or "-") over page numbers, with start <= end and
\* start <= total
IsRangeInDeck(part_specifier, total_slides) ==
    /\ IsRangePart(part_specifier)
    /\ StartToken(part_specifier) = <<>> \/ IsNumeral(StartToken(part_specifier))
    /\ EndToken(part_specifier) = <<>> \/ IsNumeral(EndToken(part_specifier))
    /\ 1 <= StartValue(part_specifier)
    /\ StartValue(part_specifier) <= EndValue(part_specifier, total_slides)
    /\ StartValue(part_specifier) <= total_slides

RangePages(part_specifier, total_slides) ==
    LET end == EndValue(part_specifier, total_slides)
    IN  {k - 1 : k \in StartValue(part_specifier)..
                       (IF end < total_slides THEN end ELSE total_slides)}

\* a single page N with 1 <= N <= total
IsPageInDeck(part_specifier, total_slides) ==
    /\ ~IsRangePart(part_specifier)
    /\ IsNumeral(str_strip(part_specifier))
    /\ 1 <= digits_value(str_strip(part_specifier))
    /\ digits_value(str_strip(part_specifier)) <= total_slides

\* the part raises nothing and adds exactly these pages to what the other
\* parts give
Contributes(i, page_set) ==
    /\ ~res.raised
    /\ res.pages = OtherParts(i).pages \cup page_set

\* C19: for total >= 1, a range part over page numbers with start <= end and
\* start <= total (a missing start is 1, a missing end is total) contributes
\* exactly the 0-indexed pages start-1 .. min(end,total)-1; a single page N
\* with 1 <= N <= total contributes exactly {N-1}; every element of a
\* returned set is in 0 .. total-1.
C19_Contribution ==
    Parsed =>
        /\ \A i \in DOMAIN PartsOf(arg[1]) :
               /\ IsRangeInDeck(PartsOf(arg[1])[i], arg[2])
               /\ ~OtherParts(i).raised
               => Contributes(i, RangePages(PartsOf(arg[1])[i], arg[2]))
        /\ \A i \in DOMAIN PartsOf(arg[1]) :
               /\ IsPageInDeck(PartsOf(arg[1])[i], arg[2])
               /\ ~OtherParts(i).raised
               => Contributes(i, {digits_value(str_strip(PartsOf(arg[1])[i])) - 1})
        /\ ~res.raised => res.pages \subseteq 0..(arg[2] - 1)
        /\ arg = <<<<"3", "-">>, 5>> => res.pages = {2, 3, 4}
        /\ arg = <<<<"-", "3">>, 5>> => res.pages = {0, 1, 2}

\* a range whose end is beyond the deck, next to a single page
C19_Witness ==
    /\ Parsed
    /\ Len(PartsOf(arg[1])) = 2
    /\ IsPageInDeck(PartsOf(arg[1])[1], arg[2])
    /\ IsRangeInDeck(PartsOf(arg[1])[2], arg[2])
    /\ EndValue(PartsOf(arg[1])[2], arg[2]) > arg[2]
    /\ StartValue(PartsOf(arg[1])[2]) > 1
    /\ ~res.raised
    /\ res.pages = {1, 2}

\* a token that is written but is not an integer, or is an integer below 1
IsBadToken(token) ==
    /\ token # <<>>
    /\ \/ ~parse_int(token).ok
       \/ parse_int(token).value < 1

\* start > end in a range part whose tokens are page numbers or missing
IsInverted(part_specifier, total_slides) ==
    /\ ~IsBadToken(StartToken(part_specifier))
    /\ ~IsBadToken(EndToken(part_specifier))
    /\ (IF StartToken(part_specifier) = <<>> THEN 1
        ELSE parse_int(StartToken(part_specifier)).value)
       > (IF EndToken(part_specifier) = <<>> THEN total_slides
          ELSE parse_int(EndToken(part_specifier)).value)

\* a part the validation rules reject
IsOffending(part_specifier, total_slides) ==
    /\ str_strip(part_specifier) # <<>>
    /\ IF IsRangePart(part_specifier)
       THEN \/ IsBadToken(StartToken(part_specifier))
            \/ IsBadToken(EndToken(part_specifier))
            \/ IsInverted(part_specifier, total_slides)
       ELSE \/ ~parse_int(str_strip(part_specifier)).ok
            \/ parse_int(str_strip(part_specifier)).value < 1
            \/ parse_int(str_strip(part_specifier)).value > total_slides

RaisesOnlyOnOffence ==
    Parsed /\ res.raised =>
        \/ str_strip(arg[1]) = <<>>
        \/ \E i \in DOMAIN PartsOf(arg[1]) :
               IsOffending(PartsOf(arg[1])[i], arg[2])

C21_EmptyDeck ==
    pc = "parsed" /\ arg[2] = 0 =>
        IF arg[1] = <<>>
        THEN /\ ~res.raised
             /\ res.pages = {}
             /\ res.warnings = <<>>
        ELSE /\ res.raised
             /\ res.error = "no_slides"
             /\ res.part = arg[1]
             /\ res.pages = None
             /\ res.warnings = <<>>

\* an expression whose first part would be rejected on a deck with slides
C21_Witness ==
    /\ pc = "parsed"
    /\ arg[2] = 0
    /\ arg[1] # <<>>
    /\ IsOffending(PartsOf(arg[1])[1], 1)
    /\ res.raised
    /\ res.error = "no_slides"

\* what a part gives when it is the whole expression
Contribution(part_specifier, total_slides) ==
    parse_parts(InitialSelection, <<part_specifier>>, total_slides).pages

Reparse(parts) == parse_page_range(str_join(<<",">>, parts), arg[2])

ReverseSeq(seq) == [i \in DOMAIN seq |-> seq[Len(seq) + 1 - i]]

\* a part without the whitespace around its tokens
Compact(part_specifier) ==
    IF IsRangePart(part_specifier)
    THEN StartToken(part_specifier) \o <<"-">> \o EndToken(part_specifier)
    ELSE str_strip(part_specifier)

\* the same pages, and no error either
SameResult(other) ==
    /\ ~other.raised
    /\ other.pages = res.pages

\* C22: for total >= 1 and an expression that raises no error, the result is
\* the union of what its non-empty parts contribute; it is the same with
\* the parts in the opposite order, with every part repeated, with the
\* whitespace around the tokens removed or added, and with empty parts put
\* before, after and between the parts.
C22_SetSemantics ==
    Parsed /\ ~res.raised =>
        LET parts == PartsOf(arg[1])
        IN  /\ res.pages =
                   UNION {Contribution(parts[i], arg[2]) :
                              i \in {j \in DOMAIN parts :
                                         str_strip(parts[j]) # <<>>}}
            /\ SameResult(Reparse(ReverseSeq(parts)))
            /\ SameResult(Reparse(parts \o parts))
            /\ SameResult(Reparse([i \in DOMAIN parts |-> Compact(parts[i])]))
            /\ SameResult(Reparse([i \in DOMAIN parts |->
                                       <<" ">> \o parts[i] \o <<" ">>]))
            /\ SameResult(Reparse(<<<<>>>> \o parts \o <<<<>>>>))
            /\ Len(parts) = 2
                   => SameResult(Reparse(<<parts[1], <<>>, parts[2]>>))

\* two parts, one written with blanks, each with a page the other lacks
C22_Witness ==
    /\ Parsed
    /\ ~res.raised
    /\ Len(PartsOf(arg[1])) = 2
    /\ \E i \in {1, 2} : Compact(PartsOf(arg[1])[i]) # PartsOf(arg[1])[i]
    /\ Contribution(PartsOf(arg[1])[1], arg[2])
           \ Contribution(PartsOf(arg[1])[2], arg[2]) # {}
    /\ Contribution(PartsOf(arg[1])[2], arg[2])
           \ Contribution(PartsOf(arg[1])[1], arg[2]) # {}
    /\ res.pages = Contribution(PartsOf(arg[1])[1], arg[2])
                       \cup Contribution(PartsOf(arg[1])[2], arg[2])

(***************************************************************************)
(* reverse_individual_words (main 15-29) and SpecReverse, which applies it *)
(* to a string over letters, the space and the sentinel.                   *)
(***************************************************************************)
\* main 23-25: split on single spaces, reverse each word, join with spaces
reverse_words(text_to_reverse) ==
    LET words == str_split(text_to_reverse, " ")
    IN  str_join(<<" ">>, [i \in DOMAIN words |-> ReverseSeq(words[i])])

\* a variant that does not look for the sentinel
reverse_individual_words_plain(text_string_with_eol) ==
    reverse_words(text_string_with_eol)

reverse_individual_words(text_string_with_eol) ==
    IF EndsWith(text_string_with_eol, EOL_MARKER)
    THEN reverse_words(SubSeq(text_string_with_eol, 1,
                              Len(text_string_with_eol) - Len(EOL_MARKER)))
         \o EOL_MARKER
    ELSE reverse_words(text_string_with_eol)

ReverseAlphabet == {"a", "b", " ", "<"}

ReverseInit ==
    /\ pc = "reverse"
    /\ arg \in SeqsUpTo(ReverseAlphabet, MaxText)
    /\ res = NoValue
    /\ MainIdle
    /\ translation_cache = EmptyMap
    /\ disk_cache = EmptyMap
    /\ text_id_counter = 0
    /\ slide_idx = 0
    /\ global_texts_for_llm_prompt = <<>>
    /\ all_processed_run_details = <<>>
    /\ pending_page_cache_updates = EmptyMap
    /\ llm_response_lines = <<>>
    /\ save_calls = 0
    /\ start_counter = 0
    /\ last_plan = NoPlan

ReverseStep ==
    /\ pc = "reverse"
    /\ pc' = "reversed"
    /\ res' = reverse_individual_words(arg)
    /\ UNCHANGED <<arg, mainVars, translation_cache, disk_cache,
                   text_id_counter, slide_idx, global_texts_for_llm_prompt,
                   all_processed_run_details, pending_page_cache_updates,
                   llm_response_lines, save_calls, start_counter, last_plan>>

ReverseNext == ReverseStep

SpecReverse == ReverseInit /\ [][ReverseNext]_vars

HasSentinel(text) == \E i \in DOMAIN text : <<text[i]>> = EOL_MARKER

\* C27: for a string s without the sentinel, reversing twice gives s back,
\* and reversing keeps the length and the place of every space; for a string
\* t + sentinel where t does not end with the sentinel, the result is the
\* reversal of t followed by the sentinel.
C27_ReverseWords ==
    pc = "reversed" =>
        /\ ~HasSentinel(arg)
               => /\ reverse_individual_words(res) = arg
                  /\ Len(res) = Len(arg)
                  /\ \A i \in DOMAIN arg : (res[i] = " ") <=> (arg[i] = " ")
        /\ \A t \in SeqsUpTo(ReverseAlphabet, MaxText) :
               arg = t \o EOL_MARKER /\ ~EndsWith(t, EOL_MARKER)
               => res = reverse_individual_words(t) \o EOL_MARKER

\* a word and a space before the sentinel: the word is reversed, the
\* sentinel stays at the end
C27_Witness ==
    /\ pc = "reversed"
    /\ arg = <<"a", "b", " ", "<">>
    /\ res = <<"b", "a", " ", "<">>

(***************************************************************************)
(* The cache entry of a page after the commit (checked under Spec).        *)
(***************************************************************************)
\* every queued run of slide k received a reply line
PageAnswered(k) ==
    \A i \in DOMAIN all_processed_run_details :
        /\ all_processed_run_details[i].run_object[1] = k
        /\ ~all_processed_run_details[i].from_cache
        => all_processed_run_details[i].final_translation # None

PageQueued(k) ==
    \E i \in DOMAIN all_processed_run_details :
        /\ all_processed_run_details[i].run_object[1] = k
        /\ ~all_processed_run_details[i].from_cache

PageServed(k) ==
    \E i \in DOMAIN all_processed_run_details :
        /\ all_processed_run_details[i].run_object[1] = k
        /\ all_processed_run_details[i].from_cache

PageTexts(k) == Texts(extract_run_info(slides[k], k))

EntryComplete(cache, k) ==
    /\ generate_page_hash(PageTexts(k)) \in DOMAIN cache
    /\ \A i \in DOMAIN PageTexts(k) :
           InCachedList(cache, generate_page_hash(PageTexts(k)),
                        PageTexts(k)[i])

\* C28: after the commit of an invocation, for every page with text whose
\* queued runs all received a reply line, the cache entry under the page's
\* fingerprint, in memory and in the file, has a pair for every run text of
\* the page, also for the runs that were served from the cache.
C28_RebuiltEntryComplete ==
    pc = "done" =>
        \A k \in DOMAIN slides :
            PageTexts(k) # <<>> /\ PageQueued(k) /\ PageAnswered(k)
            => /\ EntryComplete(translation_cache, k)
               /\ EntryComplete(disk_cache, k)

\* the same for the pages that were queued entirely
RebuiltEntryCompleteOnMiss ==
    pc = "done" =>
        \A k \in DOMAIN slides :
            /\ PageTexts(k) # <<>> /\ PageQueued(k) /\ PageAnswered(k)
            /\ ~PageServed(k)
            /\ \A j \in DOMAIN slides :
                   PageTexts(j) = PageTexts(k) => PageAnswered(j)
            => /\ EntryComplete(translation_cache, k)
               /\ EntryComplete(disk_cache, k)

(***************************************************************************)
(* The document as python-pptx presents it: a slide is a sequence of       *)
(* shapes; a shape may have a text frame (paragraphs of runs) or a table   *)
(* (rows of cells, each cell a text frame).  A run object is its place     *)
(* <<slide, shape, frame, row, cell, paragraph, run>>, with frame 1 for    *)
(* the text frame of the shape and 2 for its table.                        *)
(***************************************************************************)
RECURSIVE Flatten(_)
Flatten(seqs) == IF seqs = <<>> THEN <<>> ELSE Head(seqs) \o Flatten(Tail(seqs))

\* main 162, 176: for run in paragraph.runs
paragraph_runs(paragraph, place) ==
    [r \in DOMAIN paragraph |->
        [original_text |-> paragraph[r], run_object |-> place \o <<r>>]]

\* main 161, 175: for paragraph in text_frame.paragraphs
text_frame_runs(paragraphs, place) ==
    Flatten([p \in DOMAIN paragraphs |->
                paragraph_runs(paragraphs[p], place \o <<p>>)])

\* a variant that walks the table column by column
table_runs_by_column(rows, place) ==
    IF rows = <<>> THEN <<>>
    ELSE Flatten([col \in DOMAIN rows[1] |->
             Flatten([row \in DOMAIN rows |->
                 text_frame_runs(rows[row][col], place \o <<2, row, col>>)])])

\* main 173-174: for row in table.rows: for cell in row.cells
table_runs(rows, place) ==
    Flatten([row \in DOMAIN rows |->
        Flatten([col \in DOMAIN rows[row] |->
            text_frame_runs(rows[row][col], place \o <<2, row, col>>)])])

\* main 160-187: the text frame of a shape, then its table
shape_runs(shape, place) ==
    (IF shape.has_text_frame
     THEN text_frame_runs(shape.paragraphs, place \o <<1, 0, 0>>)
     ELSE <<>>)
    \o (IF shape.has_table THEN table_runs(shape.rows, place) ELSE <<>>)

\* main 159: for shape in slide.shapes
slide_runs(slide_to_extract, slide) ==
    Flatten([sh \in DOMAIN slide_to_extract |->
                shape_runs(slide_to_extract[sh], <<slide, sh>>)])

\* a variant that keeps the runs without text
extract_all_runs(slide_to_extract, slide) ==
    slide_runs(slide_to_extract, slide)

\* main 159-187: current_page_run_info, the runs whose text is not empty
extract_runs(slide_to_extract, slide) ==
    LET HasText(r) == r.original_text # <<>>
    IN  SelectSeq(slide_runs(slide_to_extract, slide), HasText)

TextShape(paragraphs) ==
    [has_text_frame |-> TRUE, paragraphs |-> paragraphs,
     has_table |-> FALSE, rows |-> <<>>]

TableShape(rows) ==
    [has_text_frame |-> FALSE, paragraphs |-> <<>>,
     has_table |-> TRUE, rows |-> rows]

Picture ==
    [has_text_frame |-> FALSE, paragraphs |-> <<>>,
     has_table |-> FALSE, rows |-> <<>>]

(***************************************************************************)
(* SpecExtract: main 155-283 for one slide: the runs are extracted, the    *)
(* fingerprint is computed and the slide is planned.  The slides have up   *)
(* to MaxShapes shapes: a picture, a text frame with two runs in one or in *)
(* two paragraphs, a table of two rows and two cells with text in the      *)
(* second cell of the first row and in the first cell of the second.  A    *)
(* run text is empty or begins or ends with a space.                       *)
(***************************************************************************)
ExtractTexts == {<<>>, <<" ", "a">>, <<"b", " ">>}

\* the two texts of a shape with two paragraphs or two cells
ExtractPairs ==
    {<<<<" ", "a">>, <<"b", " ">>>>,
     <<<<>>, <<"b", " ">>>>,
     <<<<" ", "a">>, <<>>>>}

ExtractShapes ==
    {Picture} \cup
    {TextShape(<<<<x, y>>>>) : x \in ExtractTexts, y \in ExtractTexts} \cup
    {TextShape(<<<<xy[1]>>, <<xy[2]>>>>) : xy \in ExtractPairs} \cup
    {TableShape(<<<<<<<<>>>>, <<<<xy[1]>>>>>>, <<<<<<xy[2]>>>>, <<<<>>>>>>>>) :
        xy \in ExtractPairs}

ExtractInit ==
    /\ pc = "extract"
    /\ arg \in SeqsUpTo(ExtractShapes, MaxShapes)
    /\ res = NoValue
    /\ MainIdle
    /\ translation_cache \in
           {EmptyMap} \cup
           {generate_page_hash(Texts(extract_runs(arg, 1))) :> list :
               list \in {<<Pair(<<" ", "a">>, Hello)>>}}
    /\ disk_cache = EmptyMap
    /\ text_id_counter = 0
    /\ slide_idx = 0
    /\ global_texts_for_llm_prompt = <<>>
    /\ all_processed_run_details = <<>>
    /\ pending_page_cache_updates = EmptyMap
    /\ llm_response_lines = <<>>
    /\ save_calls = 0
    /\ start_counter = 0
    /\ last_plan = NoPlan

ExtractStep ==
    /\ pc = "extract"
    /\ pc' = "extracted"
    /\ LET info == extract_runs(arg, 1)
       IN  /\ res' = [current_page_run_info |-> info,
                      current_page_texts_for_hash |-> Texts(info)]
           /\ IF info = <<>>
              THEN UNCHANGED <<text_id_counter, global_texts_for_llm_prompt,
                               all_processed_run_details,
                               pending_page_cache_updates, last_plan>>
              ELSE PlanPage(info, 1)
    /\ UNCHANGED <<arg, mainVars, translation_cache, disk_cache, slide_idx,
                   llm_response_lines, save_calls, start_counter>>

ExtractNext == ExtractStep

SpecExtract == ExtractInit /\ [][ExtractNext]_vars

\* the places of the runs of a slide, and the text at a place
PlacesOf(slide_to_extract, slide) ==
    UNION {
        {<<slide, sh, 1, 0, 0, p, r>> :
            p \in DOMAIN slide_to_extract[sh].paragraphs,
            r \in 1..MaxRuns} \cup
        {<<slide, sh, 2, row, col, p, r>> :
            row \in DOMAIN slide_to_extract[sh].rows,
            col \in 1..MaxRuns, p \in 1..MaxRuns, r \in 1..MaxRuns}
        : sh \in DOMAIN slide_to_extract}

HasRunAt(slide_to_extract, place) ==
    LET shape == slide_to_extract[place[2]]
    IN  IF place[3] = 1
        THEN /\ shape.has_text_frame
             /\ place[6] \in DOMAIN shape.paragraphs
             /\ place[7] \in DOMAIN shape.paragraphs[place[6]]
        ELSE /\ shape.has_table
             /\ place[4] \in DOMAIN shape.rows
             /\ place[5] \in DOMAIN shape.rows[place[4]]
             /\ place[6] \in DOMAIN shape.rows[place[4]][place[5]]
             /\ place[7] \in DOMAIN shape.rows[place[4]][place[5]][place[6]]

TextAt(slide_to_extract, place) ==
    LET shape == slide_to_extract[place[2]]
    IN  IF place[3] = 1
        THEN shape.paragraphs[place[6]][place[7]]
        ELSE shape.rows[place[4]][place[5]][place[6]][place[7]]

\* document order: shapes, then frame, rows, cells, paragraphs, runs
ComesBefore(a, b) ==
    \E i \in 1..7 : a[i] < b[i] /\ \A j \in 1..(i - 1) : a[j] = b[j]

RunsWithText(slide_to_extract, slide) ==
    {place \in PlacesOf(slide_to_extract, slide) :
        /\ HasRunAt(slide_to_extract, place)
        /\ TextAt(slide_to_extract, place) # <<>>}

\* C26: the extracted list of a slide holds exactly the runs whose text is
\* not empty, each once, with its text as it is, in document order; the
\* fingerprint is computed over exactly these texts in that order; the queue
\* and the run records hold only such runs.
C26_RunExtraction ==
    pc = "extracted" =>
        LET info == res.current_page_run_info
        IN  /\ {info[i].run_object : i \in DOMAIN info} = RunsWithText(arg, 1)
            /\ \A i, j \in DOMAIN info :
                   i < j => ComesBefore(info[i].run_object, info[j].run_object)
            /\ \A i \in DOMAIN info :
                   info[i].original_text = TextAt(arg, info[i].run_object)
            /\ res.current_page_texts_for_hash =
                   [i \in DOMAIN info |-> TextAt(arg, info[i].run_object)]
            /\ info # <<>> =>
                   /\ last_plan.called
                   /\ last_plan.page_hash =
                          generate_page_hash(
                              [i \in DOMAIN info |->
                                  TextAt(arg, info[i].run_object)])
            /\ info = <<>> => ~last_plan.called
            /\ \A i \in DOMAIN global_texts_for_llm_prompt :
                   global_texts_for_llm_prompt[i].run_object
                       \in RunsWithText(arg, 1)
            /\ {all_processed_run_details[i].run_object :
                    i \in DOMAIN all_processed_run_details}
                   = RunsWithText(arg, 1)

\* a table after a text frame: runs in two cells and two paragraphs, one run
\* without text
C26_Witness ==
    /\ pc = "extracted"
    /\ Len(arg) = 2
    /\ arg[1].has_text_frame
    /\ arg[2].has_table
    /\ Len(res.current_page_run_info) = 3
    /\ Cardinality({place \in PlacesOf(arg, 1) : HasRunAt(arg, place)}) = 4
    /\ \E i \in DOMAIN res.current_page_run_info :
           res.current_page_run_info[i].run_object = <<1, 2, 2, 1, 2, 1, 1>>
    /\ \E i \in DOMAIN res.current_page_run_info :
           res.current_page_run_info[i].run_object = <<1, 2, 2, 2, 1, 1, 1>>
    /\ Len(global_texts_for_llm_prompt) = 3

(***************************************************************************)
(* SpecMain: the command main (51-607) from the copy of the input to the   *)
(* end of the process, in both modes, with and without --pages, with a     *)
(* cache file that may be missing, unreadable or undecodable and may fail  *)
(* to be written.  The planner, the reconciler and the commit are those of *)
(* cache.py, as in Spec.  run_text is the text of the runs of prs, the     *)
(* presentation opened from the copy; a file at output_path is the texts   *)
(* that were saved to it.                                                  *)
(***************************************************************************)
\* all the runs of a deck, with and without text
deck_runs(d) == Flatten([k \in DOMAIN d |-> slide_runs(d[k], k)])

\* the text of every run of a deck
DeckTexts(d) ==
    LET runs == deck_runs(d)
    IN  [place \in {runs[i].run_object : i \in DOMAIN runs} |->
            runs[CHOOSE i \in DOMAIN runs : runs[i].run_object = place]
                .original_text]

\* the deck with the texts of a saved file
DeckWithTexts(d, texts) ==
    [k \in DOMAIN d |->
        [sh \in DOMAIN d[k] |->
            [d[k][sh] EXCEPT
                !.paragraphs =
                    [p \in DOMAIN d[k][sh].paragraphs |->
                        [r \in DOMAIN d[k][sh].paragraphs[p] |->
                            texts[<<k, sh, 1, 0, 0, p, r>>]]],
                !.rows =
                    [row \in DOMAIN d[k][sh].rows |->
                        [col \in DOMAIN d[k][sh].rows[row] |->
                            [p \in DOMAIN d[k][sh].rows[row][col] |->
                                [r \in DOMAIN d[k][sh].rows[row][col][p] |->
                                    texts[<<k, sh, 2, row, col, p, r>>]]]]]]]]

\* a variant that processes every slide whatever the selection
slides_to_process_unfiltered(d, selected) ==
    [k \in DOMAIN d |-> k]

\* main 93-97: the selected slides in deck order (1-indexed positions)
slides_to_process_objects(d, selected) ==
    LET IsSelected(k) == (k - 1) \in selected
    IN  SelectSeq([k \in DOMAIN d |-> k], IsSelected)

\* the slides of the decks: one without text, one with a text frame whose
\* middle run is empty, one with a table cell whose runs hold the sentinel
MainSlides ==
    {<<Picture>>,
     <<TextShape(<<<<Hei, <<>>, maailma>>>>)>>,
     <<TableShape(<<<<<<<<<<"a", "<">>, <<"<", "a", " ", "b">>>>>>>>>>)>>}

MainDecks == SeqsUpTo(MainSlides, MaxSlides)

\* --pages: absent, empty, and expressions that select, select nothing with
\* a warning, or are rejected
MainPages ==
    {None, <<>>, <<"1">>, <<"2", "-">>, <<"x">>,
     str_int(MaxSlides + 1),
     str_int(MaxSlides + 1) \o <<"-">> \o str_int(MaxSlides + 2)}

MainModes == {"translate", "reverse-words"}

\* reading the cache file: it is absent, it is read and decoded, open or
\* read fails with OSError, the JSON is malformed, the bytes are not UTF-8
CacheReads == {"missing", "ok", "os_error", "json_error", "unicode_error"}

\* the cache files that read well: empty, or an entry for the first slide
\* that lacks its second text
MainCacheFiles(d) ==
    {EmptyMap} \cup
    IF d # <<>> /\ extract_runs(d[1], 1) # <<>>
    THEN {generate_page_hash(Texts(extract_runs(d[1], 1))) :>
              <<Pair(Texts(extract_runs(d[1], 1))[1], Hello)>>}
    ELSE {}

\* the replies of the model in SpecMain: every item answered, all but the
\* first, none
MainReplies(queue) ==
    LET all == [i \in DOMAIN queue |->
                   queue[i].id \o <<":">> \o world \o EOL_MARKER]
    IN  {all, Tail(all), <<>>}

MainInit ==
    /\ pc = "m_copy"
    /\ invocation = 1
    /\ mode \in MainModes
    /\ pages \in MainPages
    /\ deck \in MainDecks
    /\ output_file \in {None, <<"old">>}
    /\ cache_io \in [read : CacheReads, writable : BOOLEAN]
    /\ disk_cache \in IF cache_io.read = "ok" THEN MainCacheFiles(deck)
                      ELSE {NoValue}
    /\ arg = [disk_cache |-> disk_cache, output_file |-> output_file,
              read |-> cache_io.read]
    /\ exit_code = None
    /\ load_calls = 0
    /\ parse_calls = 0
    /\ prs_saves = 0
    /\ selected_pages_0_indexed = {}
    /\ slides = <<>>
    /\ run_text = EmptyMap
    /\ translation_cache = EmptyMap
    /\ text_id_counter = 0
    /\ start_counter = 0
    /\ slide_idx = 1
    /\ global_texts_for_llm_prompt = <<>>
    /\ all_processed_run_details = <<>>
    /\ pending_page_cache_updates = EmptyMap
    /\ llm_response_lines = <<>>
    /\ model_calls = 0
    /\ save_calls = 0
    /\ first_run = NoValue
    /\ formatted_text_for_llm = None
    /\ warnings = <<>>
    /\ assignments = EmptyMap
    /\ last_plan = NoPlan
    /\ res = NoValue

\* the variables of the translation that the steps before it leave alone
planVars == <<translation_cache, text_id_counter, start_counter, slide_idx,
              global_texts_for_llm_prompt, all_processed_run_details,
              pending_page_cache_updates, llm_response_lines, model_calls,
              formatted_text_for_llm, warnings, last_plan>>

\* what no step of one invocation changes
fixedVars == <<invocation, slides, mode, pages, deck, first_run, arg, res>>

\* main 63-65, 69: the input is copied to output_path
MainCopy ==
    /\ pc = "m_copy"
    /\ pc' = "m_open"
    /\ output_file' = DeckTexts(deck)
    /\ UNCHANGED <<fixedVars, planVars, run_text, disk_cache, cache_io,
                   exit_code, load_calls, parse_calls, prs_saves, save_calls,
                   selected_pages_0_indexed, assignments>>

\* main 66-68: the copy fails; main reports it and returns
MainCopyFails ==
    /\ pc = "m_copy"
    /\ pc' = "m_done"
    /\ exit_code' = 0
    /\ UNCHANGED <<fixedVars, planVars, run_text, disk_cache, cache_io,
                   output_file, load_calls, parse_calls, prs_saves,
                   save_calls, selected_pages_0_indexed, assignments>>

\* main 72-77: the copy is opened; a deck without slides ends the run
MainOpen ==
    /\ pc = "m_open"
    /\ run_text' = DeckTexts(deck)
    /\ assignments' = [place \in DOMAIN DeckTexts(deck) |-> 0]
    /\ IF Len(deck) = 0
       THEN pc' = "m_done" /\ exit_code' = 0
       ELSE pc' = "m_select" /\ UNCHANGED exit_code
    /\ UNCHANGED <<fixedVars, planVars, disk_cache, cache_io, output_file,
                   load_calls, parse_calls, prs_saves, save_calls,
                   selected_pages_0_indexed>>

\* main 79-91: the page selection; a BadParameter ends the process
MainSelect ==
    /\ pc = "m_select"
    /\ IF pages # None /\ pages # <<>>
       THEN LET parsed == parse_page_range(pages, Len(deck))
            IN  /\ parse_calls' = parse_calls + 1
                /\ IF parsed.raised
                   THEN /\ pc' = "m_done"
                        /\ exit_code' = 2
                        /\ UNCHANGED selected_pages_0_indexed
                   ELSE /\ pc' = "m_slides"
                        /\ selected_pages_0_indexed' = parsed.pages
                        /\ UNCHANGED exit_code
       ELSE /\ pc' = "m_slides"
            /\ selected_pages_0_indexed' = 0..(Len(deck) - 1)
            /\ UNCHANGED <<parse_calls, exit_code>>
    /\ UNCHANGED <<fixedVars, planVars, run_text, disk_cache, cache_io,
                   output_file, load_calls, prs_saves, save_calls,
                   assignments>>

\* a variant of load_cache_from that catches every error of reading
load_cache_catching_all(io, content) ==
    [raised |-> FALSE,
     cache |-> IF io.read = "ok" THEN content ELSE EmptyMap]

\* cache.py 11-32: the map of the file; the empty map when the file is
\* missing or open, read or json.load fail with OSError or JSONDecodeError;
\* a UnicodeDecodeError is neither and leaves the function
load_cache_from(io, content) ==
    [raised |-> io.read = "unicode_error",
     cache |-> IF io.read = "ok" THEN content ELSE EmptyMap]

\* cache.py 35-45: the file is written; an OSError is reported and leaves
\* the file as it was (open failed) or cut short (a write failed)
SaveCacheFile(cache_data) ==
    /\ save_calls' = save_calls + 1
    /\ IF cache_io.writable
       THEN /\ disk_cache' = cache_data
            /\ cache_io' = [cache_io EXCEPT !.read = "ok"]
       ELSE \/ UNCHANGED <<disk_cache, cache_io>>
            \/ /\ disk_cache' = NoValue
               /\ cache_io' = [cache_io EXCEPT !.read = "json_error"]

\* prs.save(output_path)
SavePresentation ==
    /\ output_file' = run_text
    /\ prs_saves' = prs_saves + 1

SelectedSlides == slides_to_process_objects(deck, selected_pages_0_indexed)

\* main 99-118: no slide is selected: the copy is saved, and in translate
\* mode the cache is loaded and saved
MainNoSlides ==
    /\ pc = "m_slides"
    /\ SelectedSlides = <<>>
    /\ pc' = "m_done"
    /\ SavePresentation
    /\ IF mode = "translate"
       THEN LET loaded == load_cache_from(cache_io, disk_cache)
            IN  /\ load_calls' = load_calls + 1
                /\ IF loaded.raised
                   THEN /\ exit_code' = 1
                        /\ UNCHANGED <<translation_cache, disk_cache,
                                       cache_io, save_calls>>
                   ELSE /\ exit_code' = 0
                        /\ translation_cache' = loaded.cache
                        /\ SaveCacheFile(loaded.cache)
       ELSE /\ exit_code' = 0
            /\ UNCHANGED <<translation_cache, disk_cache, cache_io,
                           save_calls, load_calls>>
    /\ UNCHANGED <<fixedVars, run_text, text_id_counter, start_counter,
                   slide_idx, global_texts_for_llm_prompt,
                   all_processed_run_details, pending_page_cache_updates,
                   llm_response_lines, model_calls, formatted_text_for_llm,
                   warnings, last_plan, parse_calls,
                   selected_pages_0_indexed, assignments>>

\* main 140-148: translate mode loads the cache
MainLoadCache ==
    /\ pc = "m_slides"
    /\ SelectedSlides # <<>>
    /\ mode = "translate"
    /\ load_calls' = load_calls + 1
    /\ LET loaded == load_cache_from(cache_io, disk_cache)
       IN  IF loaded.raised
           THEN /\ pc' = "m_done"
                /\ exit_code' = 1
                /\ UNCHANGED translation_cache
           ELSE /\ pc' = "m_plan"
                /\ translation_cache' = loaded.cache
                /\ UNCHANGED exit_code
    /\ UNCHANGED <<fixedVars, run_text, disk_cache, cache_io, output_file,
                   text_id_counter, start_counter, slide_idx,
                   global_texts_for_llm_prompt, all_processed_run_details,
                   pending_page_cache_updates, llm_response_lines,
                   model_calls, formatted_text_for_llm, warnings, last_plan,
                   parse_calls, prs_saves, save_calls,
                   selected_pages_0_indexed, assignments>>

\* main 154-283: one selected slide of the loop
MainPlanSlide ==
    /\ pc = "m_plan"
    /\ slide_idx <= Len(SelectedSlides)
    /\ slide_idx' = slide_idx + 1
    /\ LET info == extract_runs(deck[SelectedSlides[slide_idx]],
                                SelectedSlides[slide_idx])
       IN  IF info = <<>>
           THEN UNCHANGED <<text_id_counter, global_texts_for_llm_prompt,
                            all_processed_run_details,
                            pending_page_cache_updates, last_plan>>
           ELSE PlanPage(info, slide_idx)
    /\ UNCHANGED <<fixedVars, pc, run_text, translation_cache, disk_cache,
                   cache_io, output_file, exit_code, start_counter,
                   llm_response_lines, model_calls, formatted_text_for_llm,
                   warnings, load_calls, parse_calls, prs_saves, save_calls,
                   selected_pages_0_indexed, assignments>>

\* main 285-300: no text on the selected slides: the copy and the cache are
\* saved
MainNoText ==
    /\ pc = "m_plan"
    /\ slide_idx > Len(SelectedSlides)
    /\ all_processed_run_details = <<>>
    /\ pc' = "m_done"
    /\ exit_code' = 0
    /\ SavePresentation
    /\ SaveCacheFile(translation_cache)
    /\ UNCHANGED <<fixedVars, planVars, run_text, load_calls, parse_calls,
                   selected_pages_0_indexed, assignments>>

\* main 306-451: the model is called when something is queued, and its
\* reply is reconciled
MainTranslate ==
    /\ pc = "m_plan"
    /\ slide_idx > Len(SelectedSlides)
    /\ all_processed_run_details # <<>>
    /\ pc' = "m_write"
    /\ IF global_texts_for_llm_prompt = <<>>
       THEN UNCHANGED <<model_calls, formatted_text_for_llm,
                        llm_response_lines, all_processed_run_details,
                        pending_page_cache_updates>>
       ELSE /\ model_calls' = model_calls + 1
            /\ formatted_text_for_llm' =
                   format_data_block(global_texts_for_llm_prompt)
            /\ \E lines \in MainReplies(global_texts_for_llm_prompt) :
                   /\ llm_response_lines' = lines
                   /\ Reconcile(lines)
    /\ UNCHANGED <<fixedVars, run_text, translation_cache, disk_cache,
                   cache_io, output_file, exit_code, text_id_counter,
                   start_counter, slide_idx, global_texts_for_llm_prompt,
                   warnings, last_plan, load_calls, parse_calls, prs_saves,
                   save_calls, selected_pages_0_indexed, assignments>>

\* main 453-465: the run writer
MainWrite ==
    /\ pc = "m_write"
    /\ pc' = "m_commit"
    /\ run_text' = apply_translations(run_text, all_processed_run_details)
    /\ warnings' = warnings \o writer_warnings(all_processed_run_details)
    /\ assignments' = count_assignments(assignments,
                                        all_processed_run_details)
    /\ UNCHANGED <<fixedVars, translation_cache, disk_cache, cache_io,
                   output_file, exit_code, text_id_counter, start_counter,
                   slide_idx, global_texts_for_llm_prompt,
                   all_processed_run_details, pending_page_cache_updates,
                   llm_response_lines, model_calls, formatted_text_for_llm,
                   last_plan, load_calls, parse_calls, prs_saves, save_calls,
                   selected_pages_0_indexed>>

\* main 467-537, 606: the pending updates are merged, the cache is saved,
\* and the presentation is saved
MainCommit ==
    /\ pc = "m_commit"
    /\ pc' = "m_done"
    /\ exit_code' = 0
    /\ translation_cache' =
           commit_pending_cache_updates(translation_cache,
                                        pending_page_cache_updates)
    /\ SaveCacheFile(translation_cache')
    /\ SavePresentation
    /\ UNCHANGED <<fixedVars, run_text, text_id_counter, start_counter,
                   slide_idx, global_texts_for_llm_prompt,
                   all_processed_run_details, pending_page_cache_updates,
                   llm_response_lines, model_calls, formatted_text_for_llm,
                   warnings, last_plan, load_calls, parse_calls,
                   selected_pages_0_indexed, assignments>>

\* main 546-580: the runs with text of the slides to process, in order
text_elements_for_reverse(d, slide_numbers) ==
    Flatten([i \in DOMAIN slide_numbers |->
                extract_runs(d[slide_numbers[i]], slide_numbers[i])])

\* a variant that reverses the whole text of a run, spaces included
reversed_run_text_whole(original_text) ==
    ReverseSeq(original_text)

\* main 567, 598-600: the text assigned to a run in reverse-words mode
reversed_run_text(original_text) ==
    removesuffix(reverse_individual_words(original_text \o EOL_MARKER),
                 EOL_MARKER)

\* main 597-601: the texts after the loop over the elements
RECURSIVE apply_reversal(_, _)
apply_reversal(texts, elements) ==
    IF elements = <<>> THEN texts
    ELSE apply_reversal(
             [texts EXCEPT ![Head(elements).run_object] =
                               reversed_run_text(Head(elements).original_text)],
             Tail(elements))

\* main 601: how often the loop assigns run.text, per run
RECURSIVE count_reversals(_, _)
count_reversals(counts, elements) ==
    IF elements = <<>> THEN counts
    ELSE count_reversals(
             [counts EXCEPT ![Head(elements).run_object] = @ + 1],
             Tail(elements))

\* main 539-606: reverse-words mode: the runs with text of the selected
\* slides get their words reversed and the presentation is saved
MainReverse ==
    /\ pc = "m_slides"
    /\ SelectedSlides # <<>>
    /\ mode = "reverse-words"
    /\ pc' = "m_done"
    /\ exit_code' = 0
    /\ LET elements == text_elements_for_reverse(deck, SelectedSlides)
       IN  /\ run_text' = apply_reversal(run_text, elements)
           /\ assignments' = count_reversals(assignments, elements)
           /\ text_id_counter' = text_id_counter + Len(elements)
    /\ output_file' = run_text'
    /\ prs_saves' = prs_saves + 1
    /\ UNCHANGED <<fixedVars, translation_cache, disk_cache, cache_io,
                   start_counter, slide_idx, global_texts_for_llm_prompt,
                   all_processed_run_details, pending_page_cache_updates,
                   llm_response_lines, model_calls, formatted_text_for_llm,
                   warnings, last_plan, load_calls, parse_calls, save_calls,
                   selected_pages_0_indexed>>

\* the command is run again in reverse-words mode, with the same --pages,
\* on the presentation it saved
MainAgain ==
    /\ pc = "m_done"
    /\ invocation = 1
    /\ mode = "reverse-words"
    /\ exit_code = 0
    /\ prs_saves = 1
    /\ invocation' = 2
    /\ pc' = "m_copy"
    /\ first_run' = [deck |-> deck, run_text |-> run_text,
                     selected |-> selected_pages_0_indexed]
    /\ deck' = DeckWithTexts(deck, output_file)
    /\ arg' = [disk_cache |-> disk_cache, output_file |-> output_file,
               read |-> cache_io.read]
    /\ exit_code' = None
    /\ prs_saves' = 0
    /\ parse_calls' = 0
    /\ text_id_counter' = 0
    /\ selected_pages_0_indexed' = {}
    /\ run_text' = EmptyMap
    /\ assignments' = EmptyMap
    /\ UNCHANGED <<slides, mode, pages, res, translation_cache,
                   disk_cache, cache_io, output_file, start_counter,
                   slide_idx, global_texts_for_llm_prompt,
                   all_processed_run_details, pending_page_cache_updates,
                   llm_response_lines, model_calls, formatted_text_for_llm,
                   warnings, last_plan, load_calls, save_calls>>

MainNext ==
    \/ MainCopy
    \/ MainCopyFails
    \/ MainOpen
    \/ MainSelect
    \/ MainNoSlides
    \/ MainLoadCache
    \/ MainPlanSlide
    \/ MainNoText
    \/ MainTranslate
    \/ MainWrite
    \/ MainCommit
    \/ MainReverse
    \/ MainAgain

SpecMain == MainInit /\ [][MainNext]_vars

\* --pages holds an expression that parse_page_range rejects on this deck
PagesRejected ==
    /\ pages # None
    /\ parse_page_range(pages, Len(deck)).raised

NoRunAssigned == \A place \in DOMAIN assignments : assignments[place] = 0

\* the file at output_path is what it was before the invocation
OutputUntouched == output_file = arg.output_file

\* the cache file is what it was before the invocation
CacheFileUntouched == save_calls = 0 /\ disk_cache = arg.disk_cache

\* C23: when --pages holds an expression the parser rejects, the invocation
\* ends with a non-zero exit code and nothing has been changed: no run was
\* assigned, the model was not called, the cache file was not written, and
\* the file at output_path was neither created nor overwritten.
C23_FailFast ==
    (pc = "m_done" /\ invocation = 1 /\ parse_calls = 1 /\ PagesRejected) =>
        /\ exit_code # 0
        /\ NoRunAssigned
        /\ model_calls = 0
        /\ CacheFileUntouched
        /\ OutputUntouched

\* what the code does keep of C23: once the parser has raised, the exit
\* code is 2 and no run, no model call and no cache write has happened
C23_ExceptOutputPath ==
    (pc = "m_done" /\ invocation = 1 /\ parse_calls = 1 /\ PagesRejected) =>
        /\ exit_code = 2
        /\ NoRunAssigned
        /\ model_calls = 0
        /\ CacheFileUntouched
        /\ output_file = DeckTexts(deck)

\* the step calls load_cache / save_cache
LoadsCache == load_calls' = load_calls + 1
SavesCache == save_calls' = save_calls + 1

\* the process has not ended with an error after the step
NoErrorAfter == pc' = "m_done" => exit_code' = 0

\* every record with a translation has it in its run
ResolvedWritten(texts) ==
    \A i \in DOMAIN all_processed_run_details :
        LET item == all_processed_run_details[i]
        IN  item.final_translation # None =>
                \E j \in i..Len(all_processed_run_details) :
                    /\ all_processed_run_details[j].run_object =
                           item.run_object
                    /\ texts[item.run_object] =
                           all_processed_run_details[j].final_translation

\* load_cache on a file that is missing or fails to be read or decoded
\* leaves the process running with the empty map
LoadRecovers ==
    (LoadsCache /\ cache_io.read # "ok") =>
        /\ NoErrorAfter
        /\ translation_cache' = EmptyMap

\* a save_cache that fails leaves the invocation ending normally, the
\* translations in their runs and the presentation saved with them
SaveRecovers ==
    (SavesCache /\ ~cache_io.writable) =>
        /\ pc' = "m_done"
        /\ exit_code' = 0
        /\ prs_saves' = 1
        /\ output_file' = run_text'
        /\ ResolvedWritten(output_file')

\* C24: a cache file that is missing or cannot be read or decoded gives an
\* empty map and processing continues; a cache file that cannot be written
\* leaves the invocation ending normally, with every resolved translation
\* in its run and the presentation saved.
C24_CacheFailuresRecovered == [][LoadRecovers /\ SaveRecovers]_vars

\* what the code does keep of C24: a missing file, an OSError and a
\* JSONDecodeError are recovered from, and so is a failure to write
C24_ExceptUndecodableBytes ==
    [][/\ cache_io.read # "unicode_error" => LoadRecovers
       /\ SaveRecovers]_vars

\* a translate invocation has returned from main after the input was copied
\* and opened: the normal end and the early exits of lines 74-118, 285-300
TranslateReturned ==
    /\ pc = "m_done"
    /\ mode = "translate"
    /\ exit_code = 0
    /\ output_file # arg.output_file

\* C25: in translate mode every path on which main returns (the normal end,
\* no slide selected, no text found, a deck without slides) has loaded the
\* cache once and written it once, and the cache is never written twice.
C25_CacheLifeCycle ==
    /\ save_calls <= 1
    /\ TranslateReturned => (load_calls = 1 /\ save_calls = 1)

\* what the code does keep of C25: the life cycle on every returning path
\* of a deck that has slides
C25_ExceptEmptyDeck ==
    /\ save_calls <= 1
    /\ load_calls <= 1
    /\ (TranslateReturned /\ Len(deck) > 0) =>
           (load_calls = 1 /\ save_calls = 1)

\* the run at place is on a slide that is not selected
Unselected(place) == (place[1] - 1) \notin selected_pages_0_indexed

\* the slide selection of the invocation has been made
SelectionMade == pc \in {"m_slides", "m_plan", "m_write", "m_commit"}

\* the fingerprints of the selected slides that have text
SelectedFingerprints ==
    {generate_page_hash(Texts(extract_runs(deck[k], k))) :
        k \in {n \in DOMAIN deck : (n - 1) \in selected_pages_0_indexed
                                   /\ extract_runs(deck[n], n) # <<>>}}

\* the cache file as load_cache read it at the start
LoadedCache == IF arg.read = "ok" THEN arg.disk_cache ELSE EmptyMap

\* C29: in both modes a run on a slide that is not selected is never
\* assigned and keeps its text, is never queued for the model, gives no
\* fingerprint, and enters no cache entry; without --pages every slide is
\* selected and parse_page_range is not called.
C29_SelectionFrame ==
    /\ \A place \in DOMAIN assignments :
           Unselected(place) =>
               /\ assignments[place] = 0
               /\ run_text[place] = DeckTexts(deck)[place]
    /\ \A i \in DOMAIN global_texts_for_llm_prompt :
           /\ ~Unselected(global_texts_for_llm_prompt[i].run_object)
           /\ global_texts_for_llm_prompt[i].page_hash \in SelectedFingerprints
    /\ \A i \in DOMAIN all_processed_run_details :
           ~Unselected(all_processed_run_details[i].run_object)
    /\ DOMAIN pending_page_cache_updates \subseteq SelectedFingerprints
    /\ \A h \in DOMAIN translation_cache :
           h \notin SelectedFingerprints =>
               /\ h \in DOMAIN LoadedCache
               /\ translation_cache[h] = LoadedCache[h]
    /\ (pc = "m_done" /\ prs_saves = 1) =>
           \A place \in DOMAIN output_file :
               Unselected(place) => output_file[place] = DeckTexts(deck)[place]
    /\ pages = None =>
           /\ parse_calls = 0
           /\ SelectionMade =>
                  selected_pages_0_indexed = {k - 1 : k \in DOMAIN deck}

\* "2-" on two slides with text, translate mode: slide 1 keeps its runs and
\* its entry in the cache file, slide 2 is queued, answered and written
C29_Witness ==
    /\ pc = "m_done"
    /\ mode = "translate"
    /\ pages = <<"2", "-">>
    /\ selected_pages_0_indexed = {1}
    /\ extract_runs(deck[1], 1) # <<>>
    /\ model_calls = 1
    /\ \E place \in DOMAIN assignments : assignments[place] = 1
    /\ \E place \in DOMAIN assignments :
           /\ Unselected(place)
           /\ run_text[place] # <<>>
    /\ DOMAIN translation_cache # DOMAIN LoadedCache

\* how many sentinel characters a text holds
SentinelCount(text) ==
    Cardinality({i \in DOMAIN text : <<text[i]>> = EOL_MARKER})

\* the invocation has saved the presentation and returned
SavedAndReturned == pc = "m_done" /\ prs_saves = 1

\* C30: in reverse-words mode every run with text on a selected slide is
\* assigned, once, its text with the characters of each word reversed, with
\* as many sentinel characters as before, and every other run keeps its
\* text; a second invocation with the same --pages on the saved file gives
\* every run its original text back; the cache is neither loaded nor saved
\* and the model is not called.
C30_ReverseWordsRoundTrip ==
    mode = "reverse-words" =>
        /\ load_calls = 0
        /\ save_calls = 0
        /\ model_calls = 0
        /\ disk_cache = arg.disk_cache
        /\ SavedAndReturned =>
               \A place \in DOMAIN output_file :
                   LET original == DeckTexts(deck)[place]
                   IN  IF ~Unselected(place) /\ original # <<>>
                       THEN /\ assignments[place] = 1
                            /\ output_file[place] = reverse_words(original)
                            /\ SentinelCount(output_file[place]) =
                                   SentinelCount(original)
                       ELSE /\ assignments[place] = 0
                            /\ output_file[place] = original
        /\ (invocation = 2 /\ SavedAndReturned) =>
               /\ selected_pages_0_indexed = first_run.selected
               /\ output_file = DeckTexts(first_run.deck)

\* "2-" on a text slide followed by the table slide: "a<" became "<a" and
\* "<a b" became "a< b", the text slide kept "Hei " and "maailma", and the
\* second invocation restored the table
C30_Witness ==
    /\ mode = "reverse-words"
    /\ invocation = 2
    /\ SavedAndReturned
    /\ pages = <<"2", "-">>
    /\ first_run.deck =
           <<<<TextShape(<<<<Hei, <<>>, maailma>>>>)>>,
             <<TableShape(<<<<<<<<<<"a", "<">>,
                                  <<"<", "a", " ", "b">>>>>>>>>>)>>>>
    /\ first_run.run_text[<<2, 1, 2, 1, 1, 1, 1>>] = <<"<", "a">>
    /\ first_run.run_text[<<2, 1, 2, 1, 1, 1, 2>>] = <<"a", "<", " ", "b">>
    /\ first_run.run_text[<<1, 1, 1, 0, 0, 1, 1>>] = Hei
    /\ output_file[<<2, 1, 2, 1, 1, 1, 1>>] = <<"a", "<">>
    /\ output_file[<<2, 1, 2, 1, 1, 1, 2>>] = <<"<", "a", " ", "b">>
    /\ output_file[<<1, 1, 1, 0, 0, 1, 3>>] = maailma

=============================================================================
